---------------------------- MODULE Spec2Model ----------------------------
(***************************************************************************)
(* A model of kicad-kbplacer's placement and routing engine:               *)
(*   kbplacer/board_modifier.py  (BoardModifier: collision test, tracks)   *)
(*   kbplacer/key_placer.py      (KeyPlacer: placement, routing, cleanup)  *)
(*                                                                         *)
(* Lengths are board-internal units.  One model unit is 0.25 mm, so        *)
(* FromMM multiplies by IU_PER_MM = 4 (pcbnew uses 1e6; the scale keeps    *)
(* squared distances inside TLC's 32 bit integers).  Millimetre values are *)
(* written in hundredths of a millimetre (DEFAULT_CLEARANCE_MM 0.25 = 25). *)
(* Points are records [x, y]; the y axis points down, as on a KiCad board. *)
(***************************************************************************)
EXTENDS Integers, Sequences, FiniteSets, TLC

VARIABLES
    pc,                 \* position of the program: which call comes next
    tracks,             \* board.GetTracks(): sequence of track records
    fps,                \* footprints on the board: reference -> [pos, orient, flipped]
    cfg,                \* arguments of the run: layout, diode_position, route_tracks, key_spacing
    key_distance,       \* KeyPlacer.__key_distance (board units), None before __init__
    current_key,        \* KeyPlacer.__current_key
    current_diode,      \* KeyPlacer.__current_diode
    cell,               \* index of the layout key cell the loop of run is at
    placed,             \* per processed cell: what run assigned and computed for it
    template_tracks,    \* run's template_tracks (offsets relative to the diode pad)
    column_switch_pads, \* run's column_switch_pads: sequence of <<column, pads>>
    row_diode_pads,     \* run's row_diode_pads: sequence of <<row, pads>>
    attempts,           \* every add_track_segment_by_points call so far: [track, result]
    last                \* the most recent call and what it returned

vars == <<pc, tracks, fps, cfg, key_distance, current_key, current_diode, cell,
          placed, template_tracks, column_switch_pads, row_diode_pads,
          attempts, last>>

\* Python's None, and a value that is not None
None == <<>>
Some(v) == <<v>>

-----------------------------------------------------------------------------
(* Unit conversion and the constants of board_modifier.py                   *)

IU_PER_MM == 4

\* pcbnew.FromMM, on a value given in hundredths of a millimetre
FromMM(mm100) == (mm100 * IU_PER_MM) \div 100

DEFAULT_CLEARANCE_MM == 25

\* track.SetWidth(FromMM(0.25))
TRACK_WIDTH_MM == 25

F_Cu == "F_Cu"
B_Cu == "B_Cu"

\* class Side(Flag): FRONT = False, BACK = True
FRONT == FALSE
BACK == TRUE

Pt(x, y) == [x |-> x, y |-> y]

Abs(n) == IF n < 0 THEN -n ELSE n

-----------------------------------------------------------------------------
(* Geometry of the host: distances between points and segments, compared   *)
(* exactly as squared rationals.                                            *)

Dot(a, b, p) == (b.x - a.x) * (p.x - a.x) + (b.y - a.y) * (p.y - a.y)

Cross(a, b, p) == (b.x - a.x) * (p.y - a.y) - (b.y - a.y) * (p.x - a.x)

Len2(a, b) == (b.x - a.x) * (b.x - a.x) + (b.y - a.y) * (b.y - a.y)

\* squared distance of point p to segment a-b, as <<numerator, denominator>>
PointSegDist2(p, a, b) ==
    IF Len2(a, b) = 0 THEN <<Len2(a, p), 1>>
    ELSE IF Dot(a, b, p) <= 0 THEN <<Len2(a, p), 1>>
    ELSE IF Dot(a, b, p) >= Len2(a, b) THEN <<Len2(b, p), 1>>
    ELSE <<Cross(a, b, p) * Cross(a, b, p), Len2(a, b)>>

Sgn(n) == IF n > 0 THEN 1 ELSE IF n < 0 THEN -1 ELSE 0

\* the segments a-b and c-d cross each other in a point interior to both or touch
SegmentsCross(a, b, c, d) ==
    /\ Sgn(Cross(a, b, c)) * Sgn(Cross(a, b, d)) < 0
    /\ Sgn(Cross(c, d, a)) * Sgn(Cross(c, d, b)) < 0

\* 4 * dist(p, a-b)^2 < k4, resp. <= k4  (k4 is four times the squared bound)
RatLT(d, k4) == 4 * d[1] < k4 * d[2]

RatLE(d, k4) == 4 * d[1] <= k4 * d[2]

PointSegLT(p, a, b, k4) == RatLT(PointSegDist2(p, a, b), k4)

PointSegLE(p, a, b, k4) == RatLE(PointSegDist2(p, a, b), k4)

\* 4 * dist(a-b, c-d)^2 < k4
SegSegLT(a, b, c, d, k4) ==
    \/ SegmentsCross(a, b, c, d)
    \/ PointSegLT(a, c, d, k4)
    \/ PointSegLT(b, c, d, k4)
    \/ PointSegLT(c, a, b, k4)
    \/ PointSegLT(d, a, b, k4)

-----------------------------------------------------------------------------
(* The host board: footprints, their pads, tracks, connectivity.            *)
(* A footprint reference is <<prefix, number>>: "SW{}".format(3) is the     *)
(* reference <<"SW", 3>>.  The footprint library gives each kind of         *)
(* footprint its pads (offsets from the footprint position at orientation 0 *)
(* on the front side) and the radius of its bounding hull.                  *)

Format(fmt, n) == <<fmt, n>>

KEY_FORMAT == "SW"
DIODE_FORMAT == "D"
STABILIZER_FORMAT == "ST"

PadNames(kind) == IF kind = STABILIZER_FORMAT THEN {} ELSE {"1", "2"}

\* pads are discs of this radius around their position
PadRadius == 1

PadOffset(kind, name) ==
    IF kind = KEY_FORMAT
    THEN (IF name = "1" THEN Pt(-3, -2) ELSE Pt(2, -5))
    ELSE (IF name = "1" THEN Pt(-2, 0) ELSE Pt(2, 0))

\* footprint.GetBoundingHull(): a disc around the footprint position that
\* holds the pads and the courtyard around them
HullRadius(kind) == IF kind = KEY_FORMAT THEN 8 ELSE 4

\* the trigonometry of math.cos / math.sin on multiples of 90 degrees
NormAngle(a) == ((a % 360) + 360) % 360

Cos(a) == CASE NormAngle(a) = 0 -> 1 [] NormAngle(a) = 90 -> 0
            [] NormAngle(a) = 180 -> -1 [] NormAngle(a) = 270 -> 0

Sin(a) == CASE NormAngle(a) = 0 -> 0 [] NormAngle(a) = 90 -> 1
            [] NormAngle(a) = 180 -> 0 [] NormAngle(a) = 270 -> -1

\* pcbnew's RotatePoint: what FOOTPRINT.Rotate and the footprint orientation
\* do to a point relative to the centre (positive angles turn anticlockwise
\* on the screen)
RotatePoint(p, angle) ==
    Pt(p.x * Cos(angle) + p.y * Sin(angle), (-p.x) * Sin(angle) + p.y * Cos(angle))

PtAdd(p, q) == Pt(p.x + q.x, p.y + q.y)

PtSub(p, q) == Pt(p.x - q.x, p.y - q.y)

\* pad.GetPosition() of pad `name` of the footprint `ref` with state f
FlipOffset(o, flipped) == IF flipped THEN Pt(o.x, -o.y) ELSE o

PadPosition(ref, name, f) ==
    PtAdd(f.pos, RotatePoint(FlipOffset(PadOffset(ref[1], name), f.flipped), f.orient))

\* p.IsOnLayer: the switch pads are through-hole pads, the diode pads are
\* surface pads on the side of their footprint
PadLayers(ref, f) ==
    IF ref[1] = KEY_FORMAT THEN {F_Cu, B_Cu}
    ELSE IF f.flipped THEN {B_Cu} ELSE {F_Cu}

\* Nets of the board.  Net code 0 is the default (no net).  Every footprint
\* state carries the net codes of its pads (f.nets[name]); the board's net
\* names are: 11.. COL1.., 21.. ROW1.., 31.. the net of a switch-diode pair,
\* 41.. any name that is neither COL<N> nor ROW<N>.
ColumnNet(c) == 10 + c
RowNet(r) == 20 + r
PairNet(k) == 30 + k
OtherNet(k) == 40 + k

\* GetNetname() of a net code
NetName(code) ==
    IF code = 0 THEN <<"", 0>>
    ELSE IF code \div 10 = 1 THEN <<"COL", code % 10>>
    ELSE IF code \div 10 = 2 THEN <<"ROW", code % 10>>
    ELSE IF code \div 10 = 3 THEN <<"Net-D-Pad2-", code % 10>>
    ELSE <<"col", code % 10>>

\* the pads of the footprints F (a function reference -> footprint state)
Pads(F) ==
    { [fp |-> ref, name |-> n, pos |-> PadPosition(ref, n, F[ref]),
       net |-> F[ref].nets[n], layers |-> PadLayers(ref, F[ref])] :
      <<ref, n>> \in { rn \in (DOMAIN F) \X {"1", "2"} : rn[2] \in PadNames(rn[1][1]) } }

Track(start, end, layer, net) ==
    [start |-> start, end |-> end, layer |-> layer, net |-> net]

\* pad.HitTest(point)
HitTest(p, point) == Len2(p.pos, point) <= PadRadius * PadRadius

\* pad_shape.Collide(track_shape, clearance): the distance of the pad's disc
\* to the track's centre line is below half the track width plus clearance
PadCollide(p, track, clearance) ==
    PointSegLT(p.pos, track.start, track.end,
               (2 * PadRadius + FromMM(TRACK_WIDTH_MM) + 2 * clearance)
               * (2 * PadRadius + FromMM(TRACK_WIDTH_MM) + 2 * clearance))

\* hull.Collide(track_shape) for the footprint ref with state f
HullCollide(ref, f, track) ==
    PointSegLT(f.pos, track.start, track.end,
               (2 * HullRadius(ref[1]) + FromMM(TRACK_WIDTH_MM))
               * (2 * HullRadius(ref[1]) + FromMM(TRACK_WIDTH_MM)))

\* t.GetEffectiveShape().Collide(track_shape, clearance) of two tracks
TrackCollide(t, track, clearance) ==
    SegSegLT(t.start, t.end, track.start, track.end,
             (2 * FromMM(TRACK_WIDTH_MM) + 2 * clearance)
             * (2 * FromMM(TRACK_WIDTH_MM) + 2 * clearance))

-----------------------------------------------------------------------------
(* board.BuildConnectivity() / board.GetConnectivity()                      *)
(* Two tracks are connected when an end point of one lies on the other (on  *)
(* the same layer); a track is connected to a pad when one of its end       *)
(* points lies on the pad and the pad is on the track's layer.              *)

PointOnTrack(point, t) ==
    PointSegLE(point, t.start, t.end, FromMM(TRACK_WIDTH_MM) * FromMM(TRACK_WIDTH_MM))

TracksConnected(t, u) ==
    /\ t.layer = u.layer
    /\ \/ PointOnTrack(t.start, u) \/ PointOnTrack(t.end, u)
       \/ PointOnTrack(u.start, t) \/ PointOnTrack(u.end, t)

TrackPadConnected(t, p) ==
    /\ t.layer \in p.layers
    /\ (HitTest(p, t.start) \/ HitTest(p, t.end))

\* connectivity.GetConnectedTracks(T[i]): indices of the tracks connected to it
GetConnectedTracks(T, i) ==
    { j \in DOMAIN T : j # i /\ TracksConnected(T[i], T[j]) }

\* connectivity.GetConnectedPads(T[i])
GetConnectedPads(T, P, i) == { p \in P : TrackPadConnected(T[i], p) }

\* the tracks of the cluster of the tracks S: everything reachable over
\* tracks and pads.  ct[i] and cp[i] are the tracks and pads connected to i.
RECURSIVE Cluster(_, _, _)
Cluster(ct, cp, S) ==
    LET N == S \cup UNION { ct[i] : i \in S }
               \cup { j \in DOMAIN cp : \E i \in S : cp[i] \cap cp[j] # {} }
    IN  IF N = S THEN S ELSE Cluster(ct, cp, N)

\* the net codes of the pads in the cluster of each track
ClusterNets(ct, cp) ==
    [i \in DOMAIN cp |-> { p.net : p \in UNION { cp[j] : j \in Cluster(ct, cp, {i}) } }]

PropagateNets(T, nets) ==
    [ i \in DOMAIN T |->
        IF Cardinality(nets[i]) = 1
        THEN [T[i] EXCEPT !.net = CHOOSE n \in nets[i] : TRUE]
        ELSE T[i] ]

\* BuildConnectivity propagates the net of a cluster's pads to its tracks,
\* unless the cluster has no pad or pads of different nets
BuildConnectivity(T, P) ==
    PropagateNets(T, ClusterNets([i \in DOMAIN T |-> GetConnectedTracks(T, i)],
                                 [i \in DOMAIN T |-> GetConnectedPads(T, P, i)]))

\* connectivity.TestTrackEndpointDangling(T[i]): one of its end points
\* touches no other track and no pad
EndpointConnected(T, P, i, point) ==
    \/ \E j \in DOMAIN T : j # i /\ T[j].layer = T[i].layer /\ PointOnTrack(point, T[j])
    \/ \E p \in P : T[i].layer \in p.layers /\ HitTest(p, point)

TestTrackEndpointDangling(T, P, i) ==
    \/ ~EndpointConnected(T, P, i, T[i].start)
    \/ ~EndpointConnected(T, P, i, T[i].end)

-----------------------------------------------------------------------------
(* BoardModifier.test_track_collision                                       *)

\* the pad loop (lines 82-131): the pads appended to collide_list
\* a pad loop that never flags a pad the candidate starts or ends on
pad_collisions_not_at_endpoint(F, track) ==
    { p \in Pads(F) :
        /\ HullCollide(p.fp, F[p.fp], track)
        /\ ~(track.net # 0 /\ track.net = p.net)
        /\ ~(HitTest(p, track.start) \/ HitTest(p, track.end))
        /\ PadCollide(p, track, FromMM(DEFAULT_CLEARANCE_MM))
        /\ track.layer \in p.layers }

pad_collisions(F, track) ==
    { p \in Pads(F) :
        /\ HullCollide(p.fp, F[p.fp], track)
        /\ ~(track.net # 0 /\ track.net = p.net)
        /\ IF HitTest(p, track.start) \/ HitTest(p, track.end)
           THEN track.net # 0 /\ track.net # p.net /\ track.layer \in p.layers
           ELSE /\ PadCollide(p, track, FromMM(DEFAULT_CLEARANCE_MM))
                /\ track.layer \in p.layers }

\* a comparison that looks at the candidate's start only
shares_endpoint_at_start(track, t) ==
    \/ track.start = t.start
    \/ track.start = t.end

\* lines 141-146
shares_endpoint(track, t) ==
    \/ track.start = t.start
    \/ track.start = t.end
    \/ track.end = t.start
    \/ track.end = t.end

\* a guard that skips every track of the candidate's net code, 0 included
track_is_checked_other_net(track, t) ==
    /\ t.layer = track.layer
    /\ track.net # t.net

\* the guard of the track loop (lines 136-140); the candidate is a new
\* object, so no track of the board has its m_Uuid
track_is_checked(track, t) ==
    /\ t.layer = track.layer
    /\ (track.net # t.net \/ track.net = 0)

\* the track loop (lines 134-176), from track i of T on, in board order.
\* st.pads, st.tracks: the pads and tracks in collide_list; st.clear: tracks_to_clear
RECURSIVE track_loop(_, _, _, _, _)
track_loop(T, P, track, i, st) ==
    IF i > Len(T) THEN st
    ELSE IF ~track_is_checked(track, T[i]) THEN track_loop(T, P, track, i + 1, st)
    ELSE IF shares_endpoint(track, T[i])
    THEN track_loop(T, P, track, i + 1,
            [st EXCEPT !.clear = @ \cup GetConnectedTracks(T, i),
                       !.pads = @ \ GetConnectedPads(T, P, i)])
    ELSE IF TrackCollide(T[i], track, FromMM(DEFAULT_CLEARANCE_MM))
    THEN track_loop(T, P, track, i + 1, [st EXCEPT !.tracks = @ \cup {i}])
    ELSE track_loop(T, P, track, i + 1, st)

\* a result that looks at the pads only
collision_result_pads_only(T, hits, st) ==
    [board |-> T, pad_hits |-> hits, pads |-> st.pads, tracks |-> st.tracks \ st.clear,
     result |-> (st.pads # {})]

\* what is left in collide_list after the pass of lines 177-184, and the
\* returned value (line 185)
collision_result(T, hits, st) ==
    [board |-> T, pad_hits |-> hits, pads |-> st.pads, tracks |-> st.tracks \ st.clear,
     result |-> (st.pads # {} \/ st.tracks \ st.clear # {})]

collision_test(T, P, hits, track) ==
    collision_result(T, hits,
        track_loop(T, P, track, 1, [pads |-> hits, tracks |-> {}, clear |-> {}]))

\* test_track_collision(track) on the board with tracks T0 and footprints F:
\* .board is the board's tracks after BuildConnectivity, .pad_hits the pads in
\* collide_list after the pad loop, .pads and .tracks what is left in
\* collide_list at the end, .result the returned value
test_track_collision(T0, F, track) ==
    collision_test(BuildConnectivity(T0, Pads(F)), Pads(F), pad_collisions(F, track), track)

\* an add that ignores the outcome of the collision test
add_if_clear_always(test, track) ==
    [board |-> Append(test.board, track), result |-> Some(track.end), test |-> test]

\* lines 206-210: the track is added, and its end returned, when the test is negative
add_if_clear(test, track) ==
    IF ~test.result
    THEN [board |-> Append(test.board, track), result |-> Some(track.end), test |-> test]
    ELSE [board |-> test.board, result |-> None, test |-> test]

\* add_track_to_board(track): the board's tracks afterwards and the returned value
add_track_to_board(T0, F, track) ==
    add_if_clear(test_track_collision(T0, F, track), track)

\* add_track_segment_by_points(start, end, layer): a new PCB_TRACK has net code 0
add_track_segment_by_points(T0, F, start, end, layer) ==
    add_track_to_board(T0, F, Track(start, end, layer, 0))

\* add_track_segment(start, vector, layer)
add_track_segment(T0, F, start, vector, layer) ==
    add_track_segment_by_points(T0, F, start,
                                Pt(start.x + vector[1], start.y + vector[2]), layer)

-----------------------------------------------------------------------------
(* KeyPlacer.remove_dangling_tracks                                         *)

\* The loop of lines 239-241 over board.GetTracks(), from position k of the
\* live sequence L on.  ids[k] is the index the track L[k] had when the
\* connectivity was built, D the tracks that connectivity reports dangling.
\* board.GetTracks() is the board's own container and RemoveNative erases
\* from it during the iteration: after an erasure the iterator may or may
\* not step over the element that followed (skip[i], for the erased i).
Without(L, k) == SubSeq(L, 1, k - 1) \o SubSeq(L, k + 1, Len(L))

RECURSIVE dangling_loop(_, _, _, _, _)
dangling_loop(L, ids, D, skip, k) ==
    IF k > Len(L) THEN L
    ELSE IF ids[k] \in D
    THEN dangling_loop(Without(L, k), Without(ids, k), D, skip,
                       IF skip[ids[k]] THEN k + 1 ELSE k)
    ELSE dangling_loop(L, ids, D, skip, k + 1)

dangling_tracks(T, P) == { i \in DOMAIN T : TestTrackEndpointDangling(T, P, i) }

remove_dangling(T, P, skip) ==
    dangling_loop(T, [i \in DOMAIN T |-> i], dangling_tracks(T, P), skip, 1)

remove_dangling_tracks(T0, F, skip) ==
    remove_dangling(BuildConnectivity(T0, Pads(F)), Pads(F), skip)

\* the tracks the cleanup finds dangling, and so the erasures it makes
Erasures(T0, F) == dangling_tracks(BuildConnectivity(T0, Pads(F)), Pads(F))

-----------------------------------------------------------------------------
(* The router's interface on a board with one placed switch-diode pair:     *)
(* any sequence of add_track_segment_by_points, test_track_collision and    *)
(* remove_dangling_tracks calls.                                            *)

MaxCalls == 2

Nets(ns) == [n \in {"1", "2"} |-> ns[IF n = "1" THEN 1 ELSE 2]]

Footprint(pos, orient, flipped, nets) ==
    [pos |-> pos, orient |-> orient, flipped |-> flipped, nets |-> Nets(nets)]

\* SW1 at the origin, D1 on the back side below it, turned by 90 degrees
RouterBoard ==
    (Format(KEY_FORMAT, 1) :> Footprint(Pt(0, 0), 0, FRONT, <<ColumnNet(1), PairNet(1)>>))
    @@ (Format(DIODE_FORMAT, 1) :> Footprint(Pt(4, 3), 90, BACK, <<RowNet(1), PairNet(1)>>))

\* diode pad 2, the corner of the automatic route, switch pad 2, a point on
\* the route's second leg, a point beside switch pad 2, switch pad 1
RoutePoints == <<Pt(4, 1), Pt(2, -1), Pt(2, -5), Pt(2, -2), Pt(4, -4), Pt(-3, -2)>>

\* the segments a caller asks for: from a route point to a later one
Segments ==
    { <<RoutePoints[i], RoutePoints[j]>> : <<i, j>> \in
        { ij \in (DOMAIN RoutePoints) \X (DOMAIN RoutePoints) : ij[1] < ij[2] } }

Layers == {F_Cu, B_Cu}

CandidateNets == {PairNet(1), ColumnNet(1)}

NoCall ==
    [op |-> "none", track |-> Track(Pt(0, 0), Pt(0, 0), F_Cu, 0), before |-> <<>>,
     pad_hits |-> {}, pads |-> {}, tracks |-> {}, collision |-> FALSE,
     returned |-> None]

Call(op, track, before, test, returned) ==
    [op |-> op, track |-> track, before |-> before, pad_hits |-> test.pad_hits,
     pads |-> test.pads, tracks |-> test.tracks, collision |-> test.result,
     returned |-> returned]

\* the board is empty, or switch pad 2 already has a stub towards the diode,
\* or a track was just drawn by hand from switch pad 2 past diode pad 2 (its
\* net code is still 0: the connectivity has not been rebuilt since)
InitialBoards ==
    { <<>>, <<Track(Pt(2, -5), Pt(2, -1), B_Cu, PairNet(1))>>,
      <<Track(Pt(2, -5), Pt(5, -1), B_Cu, 0)>> }

RouterInit ==
    /\ pc = "router"
    /\ tracks \in InitialBoards
    /\ fps = RouterBoard
    /\ cfg = None
    /\ key_distance = None
    /\ current_key = 1
    /\ current_diode = 1
    /\ cell = 0
    /\ placed = <<>>
    /\ template_tracks = <<>>
    /\ column_switch_pads = <<>>
    /\ row_diode_pads = <<>>
    /\ attempts = <<>>
    /\ last = NoCall

runState == <<cfg, key_distance, current_key, current_diode, cell, placed,
              template_tracks, column_switch_pads, row_diode_pads>>

Added(track, r) ==
    /\ tracks' = r.board
    /\ last' = Call("add", track, tracks, r.test, r.result)
    /\ attempts' = Append(attempts, [track |-> track, result |-> r.result])

\* a caller adds a segment
AddSegment ==
    /\ pc = "router"
    /\ Len(attempts) < MaxCalls
    /\ \E seg \in Segments, layer \in Layers :
         Added(Track(seg[1], seg[2], layer, 0),
               add_track_segment_by_points(tracks, fps, seg[1], seg[2], layer))
    /\ UNCHANGED <<pc, fps, runState>>

Tested(track, test) ==
    /\ tracks' = test.board
    /\ last' = Call("test", track, tracks, test, None)

\* a caller tests a track that already carries a net (or none)
TestCollision ==
    /\ pc = "router"
    /\ Len(attempts) < MaxCalls - 1
    /\ \E seg \in Segments, layer \in Layers, net \in CandidateNets :
         Tested(Track(seg[1], seg[2], layer, net),
                test_track_collision(tracks, fps, Track(seg[1], seg[2], layer, net)))
    /\ pc' = "tested"
    /\ UNCHANGED <<fps, attempts, runState>>

\* a candidate whose net code is read after the connectivity was rebuilt
candidate_read_after_rebuild(T0, F, i) == BuildConnectivity(T0, Pads(F))[i]

\* lines 76-79, for a candidate that is track i of the board: its shape,
\* start, end and net code are read before line 81 rebuilds the connectivity
candidate_read(T0, F, i) == T0[i]

\* test_track_collision(track) for the track i of the board: the loop of
\* line 134 passes over the candidate itself (line 137)
test_board_track(T0, F, i) ==
    collision_test(Without(BuildConnectivity(T0, Pads(F)), i), Pads(F),
                   pad_collisions(F, candidate_read(T0, F, i)), candidate_read(T0, F, i))

\* a caller tests a track that is on the board
TestBoardTrack ==
    /\ pc = "router"
    /\ \E i \in DOMAIN tracks :
         last' = Call("test_board", candidate_read(tracks, fps, i), tracks,
                      test_board_track(tracks, fps, i), None)
    /\ tracks' = BuildConnectivity(tracks, Pads(fps))
    /\ pc' = "tested"
    /\ UNCHANGED <<fps, attempts, runState>>

\* a caller cleans up
RemoveDangling ==
    /\ pc = "router"
    /\ tracks # <<>>
    /\ \E skip \in [Erasures(tracks, fps) -> BOOLEAN] :
         tracks' = remove_dangling_tracks(tracks, fps, skip)
    /\ last' = [NoCall EXCEPT !.op = "remove_dangling", !.before = tracks]
    /\ pc' = "cleaned"
    /\ UNCHANGED <<fps, attempts, runState>>

\* the same, when no erasure disturbs the iteration over the tracks
RemoveDanglingInOrder ==
    /\ pc = "router"
    /\ tracks # <<>>
    /\ tracks' = remove_dangling_tracks(tracks, fps, [i \in DOMAIN tracks |-> FALSE])
    /\ last' = [NoCall EXCEPT !.op = "remove_dangling", !.before = tracks]
    /\ pc' = "cleaned"
    /\ UNCHANGED <<fps, attempts, runState>>

RouterNext == AddSegment \/ TestCollision \/ TestBoardTrack \/ RemoveDangling

\* add_segment calls followed by a cleanup whose iteration is undisturbed
CleanupNext == AddSegment \/ RemoveDanglingInOrder

SpecCleanup == RouterInit /\ [][CleanupNext]_vars

SpecRouter == RouterInit /\ [][RouterNext]_vars

-----------------------------------------------------------------------------
(* Claims about the router's interface, checked under SpecRouter            *)

\* the tracks of T reachable from track i over end points shared by tracks
\* of one layer
RECURSIVE EndpointLinked(_, _)
EndpointLinked(T, S) ==
    LET N == S \cup { j \in DOMAIN T :
                        \E i \in S : T[i].layer = T[j].layer /\ shares_endpoint(T[i], T[j]) }
    IN  IF N = S THEN S ELSE EndpointLinked(T, N)

Overlap(t, u) ==
    t.layer = u.layer /\ TrackCollide(t, u, FromMM(DEFAULT_CLEARANCE_MM))

\* the tracks of T connected to track i, directly or over other tracks
RECURSIVE ConnectedTracks(_, _)
ConnectedTracks(T, S) ==
    LET N == S \cup UNION { GetConnectedTracks(T, i) : i \in S }
    IN  IF N = S THEN S ELSE ConnectedTracks(T, N)

\* C1: on every board reached by add_segment calls from a collision-free
\* board, two distinct same-layer tracks that overlap within the clearance
\* are linked by a chain of shared end points; and an add_segment whose track
\* overlaps a same-layer track, sharing no end point with it nor with any
\* track connected to it, returns None and leaves the track count unchanged.
C1_OverlapOnlyWhenLinked ==
    /\ \A i \in DOMAIN tracks : \A j \in DOMAIN tracks :
         (i < j /\ Overlap(tracks[i], tracks[j])) => j \in EndpointLinked(tracks, {i})
    /\ (last.op = "add" /\
        \E i \in DOMAIN last.before :
            /\ Overlap(last.before[i], last.track)
            /\ \A j \in ConnectedTracks(last.before, {i}) :
                 ~shares_endpoint(last.track, last.before[j]))
       => (last.returned = None /\ Len(tracks) = Len(last.before))

\* a segment was accepted although it overlaps an older track of its layer
\* with which it shares no end point
C1_Witness ==
    /\ last.op = "add"
    /\ last.returned # None
    /\ \E i \in DOMAIN last.before :
         Overlap(last.before[i], last.track) /\ ~shares_endpoint(last.track, last.before[i])

\* a segment was rejected because it overlaps a track it is not joined to
C1_Rejected ==
    /\ last.op = "add"
    /\ last.returned = None
    /\ last.pads = {}
    /\ last.tracks # {}

Geometry(T) == [i \in DOMAIN T |-> [start |-> T[i].start, end |-> T[i].end, layer |-> T[i].layer]]

\* C2: add_track_segment_by_points adds exactly the candidate and returns
\* its end point when the collision test is negative, and changes no track
\* and returns None when it is positive: the result is not None iff a track
\* was added.
C2_AddedIffReturned ==
    last.op = "add" =>
        /\ ~last.collision =>
             /\ Geometry(tracks) = Geometry(Append(last.before, last.track))
             /\ last.returned = Some(last.track.end)
        /\ last.collision =>
             /\ Geometry(tracks) = Geometry(last.before)
             /\ last.returned = None
        /\ (last.returned # None) <=> (Len(tracks) = Len(last.before) + 1)

C2_Witness ==
    /\ last.op = "add"
    /\ last.collision
    /\ \E k \in DOMAIN attempts : attempts[k].result # None

HitsPad(track, p) == HitTest(p, track.start) \/ HitTest(p, track.end)

\* the pads connected to a board track that shares an end point with the candidate
RetractedPads(T, P, track) ==
    UNION { GetConnectedPads(T, P, i) :
            i \in { j \in DOMAIN T : track_is_checked(track, T[j]) /\ shares_endpoint(track, T[j]) } }

\* C3: for a candidate with a non-default net code n that starts or ends on
\* a pad, the pad is flagged when its net differs from n and it is on the
\* track's layer (and the test then returns true unless a track the
\* candidate is joined to leads to that pad), and is never flagged when its
\* net is n.
C3_PadAtEndpoint ==
    (last.op = "test" /\ last.track.net # 0) =>
        \A p \in Pads(fps) :
            HitsPad(last.track, p) =>
                /\ (p.net # last.track.net /\ last.track.layer \in p.layers) =>
                      /\ p \in last.pad_hits
                      /\ (p \notin RetractedPads(tracks, Pads(fps), last.track) => last.collision)
                /\ (p.net = last.track.net) => (p \notin last.pad_hits /\ p \notin last.pads)

\* a candidate of one net ends on a pad of another net of its layer, and
\* a candidate ends on a pad of its own net
C3_Witness ==
    /\ last.op = "test"
    /\ last.track.net = ColumnNet(1)
    /\ \E p \in last.pad_hits : HitsPad(last.track, p) /\ p.net = PairNet(1)

C3_WitnessSameNet ==
    /\ last.op = "test"
    /\ last.track.net = PairNet(1)
    /\ \E p \in Pads(fps) : HitsPad(last.track, p) /\ p.net = PairNet(1)
    /\ ~last.collision

\* the board tracks of the candidate's layer that share an end point with it
JoinedTracks(T, track) ==
    { j \in DOMAIN T : T[j].layer = track.layer /\ shares_endpoint(track, T[j]) }

\* the tracks and pads connected to a track the candidate is joined to
ClearedTracks(T, track) == UNION { GetConnectedTracks(T, i) : i \in JoinedTracks(T, track) }

ClearedPads(T, P, track) == UNION { GetConnectedPads(T, P, i) : i \in JoinedTracks(T, track) }

C4_DefaultNetRejected ==
    /\ last.op = "add"
    /\ last.collision
    /\ \E i \in last.tracks : tracks[i].net = 0

Rebuilt ==
    \/ last.op \in {"test", "test_board"} /\ tracks = BuildConnectivity(last.before, Pads(fps))
    \/ last.op = "add" /\ last.collision /\ tracks = BuildConnectivity(last.before, Pads(fps))
    \/ last.op = "add" /\ ~last.collision
         /\ tracks = Append(BuildConnectivity(last.before, Pads(fps)), last.track)

\* the pads cleared for the candidate that is track i of the board
ClearedPadsOnBoard(i) == ClearedPads(Without(tracks, i), Pads(fps), last.track)

RebuiltBoard == BuildConnectivity(last.before, Pads(fps))

\* the tracks of the board B on the candidate's layer that start or end
\* where the candidate starts or ends
JoinedAt(B) ==
    { j \in DOMAIN B :
        /\ B[j].layer = last.track.layer
        /\ {last.track.start, last.track.end} \cap {B[j].start, B[j].end} # {} }

\* those of them the track loop looks at: of another net, or any when the
\* candidate has net code 0
JoinedChecked(B) ==
    { j \in JoinedAt(B) : last.track.net # B[j].net \/ last.track.net = 0 }

\* the pads connected to one of the tracks S of the board B
PadsOf(B, S) == UNION { GetConnectedPads(B, Pads(fps), j) : j \in S }

\* the track u of the board B lies within the clearance of the candidate
\* and the track loop tests it
Overlapped(B, u) ==
    /\ B[u].layer = last.track.layer
    /\ (last.track.net # B[u].net \/ last.track.net = 0)
    /\ u \notin JoinedAt(B)
    /\ TrackCollide(B[u], last.track, FromMM(DEFAULT_CLEARANCE_MM))

\* C16 (as claimed): when the candidate starts or ends where a same-layer
\* track T starts or ends, no collision is reported against T, against any
\* track reachable from T over connected tracks, or against any pad
\* connected to a track of that chain; a collision with any other item is
\* kept and makes the result true.
C16_ChainCleared ==
    last.op \in {"add", "test"} =>
        /\ \A j \in JoinedAt(RebuiltBoard) :
             /\ ConnectedTracks(RebuiltBoard, {j}) \cap last.tracks = {}
             /\ PadsOf(RebuiltBoard, ConnectedTracks(RebuiltBoard, {j})) \cap last.pads = {}
        /\ (last.pads # {} \/ last.tracks # {}) => last.collision

\* C16 (amended): when the candidate starts or ends where a same-layer track
\* T starts or ends, and T is of another net or the candidate has net code
\* 0, no collision is reported against T, against the tracks the
\* connectivity gives as connected to T (those that touch T), or against
\* the pads connected to T (those T starts or ends on), whatever the place
\* of T among the board's tracks; a collision with any other item, also one
\* that is reachable from T over further tracks, is kept and makes the
\* result true.
C16_NeighboursCleared ==
    last.op \in {"add", "test"} =>
        /\ \A j \in JoinedChecked(RebuiltBoard) :
             /\ j \notin last.tracks
             /\ GetConnectedTracks(RebuiltBoard, j) \cap last.tracks = {}
             /\ GetConnectedPads(RebuiltBoard, Pads(fps), j) \cap last.pads = {}
        /\ \A u \in DOMAIN RebuiltBoard :
             ( /\ Overlapped(RebuiltBoard, u)
               /\ \A j \in JoinedChecked(RebuiltBoard) : u \notin GetConnectedTracks(RebuiltBoard, j) )
             => (u \in last.tracks /\ last.collision)
        /\ \A p \in last.pad_hits :
             p \notin PadsOf(RebuiltBoard, JoinedChecked(RebuiltBoard))
             => (p \in last.pads /\ last.collision)

\* a pad flagged for the candidate was cleared by a track that ends on it and
\* that the candidate is joined to, and the candidate was accepted
C16_Witness ==
    /\ last.op = "add"
    /\ ~last.collision
    /\ last.pad_hits # {}
    /\ last.pad_hits \subseteq PadsOf(RebuiltBoard, JoinedChecked(RebuiltBoard))

\* a track within the clearance was cleared by a neighbour the candidate is
\* joined to, whether the neighbour comes before or after it on the board
C16_WitnessTrack ==
    /\ last.op = "add"
    /\ ~last.collision
    /\ \E u \in DOMAIN RebuiltBoard : \E j \in JoinedChecked(RebuiltBoard) :
         Overlapped(RebuiltBoard, u) /\ u \in GetConnectedTracks(RebuiltBoard, j) /\ j > u

C16_WitnessTrackAfter ==
    /\ last.op = "add"
    /\ ~last.collision
    /\ \E u \in DOMAIN RebuiltBoard : \E j \in JoinedChecked(RebuiltBoard) :
         Overlapped(RebuiltBoard, u) /\ u \in GetConnectedTracks(RebuiltBoard, j) /\ j < u

\* a pad at the far end of a chain of two tracks made the call return true
C16_WitnessKept ==
    /\ last.op = "add"
    /\ last.collision
    /\ last.tracks = {}
    /\ \E j \in JoinedChecked(RebuiltBoard) :
         PadsOf(RebuiltBoard, ConnectedTracks(RebuiltBoard, {j})) \cap last.pads # {}

-----------------------------------------------------------------------------
(* key_placer.py: coordinate maps and the switch-diode router               *)

position_in_rotated_coordinates(point, angle) ==
    Pt(point.x * Cos(angle) + point.y * Sin(angle),
       (-point.x) * Sin(angle) + point.y * Cos(angle))

\* a map back that turns the same way as the map forth
position_in_cartesian_coordinates_same_turn(point, angle) ==
    position_in_rotated_coordinates(point, angle)

position_in_cartesian_coordinates(point, angle) ==
    Pt(point.x * Cos(angle) - point.y * Sin(angle),
       point.x * Sin(angle) + point.y * Cos(angle))

\* a corner that makes both legs straight
calculate_corner_square(diode_pad_position, switch_pad_position) ==
    Pt(switch_pad_position.x, diode_pad_position.y)

calculate_corner_position_of_switch_diode_route(diode_pad_position, switch_pad_position) ==
    IF Abs(diode_pad_position.x - switch_pad_position.x)
         < Abs(diode_pad_position.y - switch_pad_position.y)
    THEN Pt(diode_pad_position.x - (diode_pad_position.x - switch_pad_position.x),
            diode_pad_position.y
              + (IF diode_pad_position.y - switch_pad_position.y > 0 THEN -1 ELSE 1)
                * Abs(diode_pad_position.x - switch_pad_position.x))
    ELSE Pt(diode_pad_position.x
              + (IF diode_pad_position.x - switch_pad_position.x > 0 THEN -1 ELSE 1)
                * Abs(diode_pad_position.y - switch_pad_position.y),
            diode_pad_position.y - (diode_pad_position.y - switch_pad_position.y))

\* The state of a routing routine: the board's tracks, the calls of
\* add_track_segment_by_points it made (candidate and returned value), and
\* the value of its local `start` / `last_position`.
Routing(board, log, start) == [board |-> board, attempts |-> log, start |-> start]

\* a replay that goes on from the point it aimed at, added or not
Attempted_from_end(rs, r, track) ==
    Routing(r.board, Append(rs.attempts, [track |-> track, result |-> r.result]), track.end)

Attempted(rs, r, track) ==
    Routing(r.board, Append(rs.attempts, [track |-> track, result |-> r.result]),
            IF r.result # None THEN r.result[1] ELSE rs.start)

\* one add_track_segment_by_points(start, end, layer) call of a routing routine
Attempt(rs, F, start, end, layer) ==
    Attempted(rs, add_track_segment_by_points(rs.board, F, start, end, layer),
              Track(start, end, layer, 0))

\* lines 168-175: the end point of the template point t
template_end(t, diode_pad_position, angle) ==
    IF angle # 0
    THEN position_in_cartesian_coordinates(
             PtAdd(t, position_in_rotated_coordinates(diode_pad_position, angle)), angle)
    ELSE PtAdd(t, diode_pad_position)

\* lines 167-178: the replay of the template from its point i on
RECURSIVE replay_template(_, _, _, _, _, _, _)
replay_template(rs, F, template, i, diode_pad_position, angle, layer) ==
    IF i > Len(template) THEN rs
    ELSE replay_template(
             Attempt(rs, F, rs.start, template_end(template[i], diode_pad_position, angle), layer),
             F, template, i + 1, diode_pad_position, angle, layer)

\* lines 189-210
route_corner(diode_pad_position, switch_pad_position, angle) ==
    IF angle # 0
    THEN position_in_cartesian_coordinates(
             calculate_corner_position_of_switch_diode_route(
                 position_in_rotated_coordinates(diode_pad_position, angle),
                 position_in_rotated_coordinates(switch_pad_position, angle)), angle)
    ELSE calculate_corner_position_of_switch_diode_route(diode_pad_position, switch_pad_position)

\* lines 212-216: both segments are attempted, whatever the first returned
route_two_segments(rs, F, diode_pad_position, corner, switch_pad_position, layer) ==
    Attempt(Attempt(rs, F, diode_pad_position, corner, layer),
            F, corner, switch_pad_position, layer)

\* lines 163-216
route_pads(rs, F, switch_pad_position, diode_pad_position, angle, template_track_points, layer) ==
    IF template_track_points # <<>>
    THEN replay_template(rs, F, template_track_points, 1, diode_pad_position, angle, layer)
    ELSE IF switch_pad_position.x = diode_pad_position.x
            \/ switch_pad_position.y = diode_pad_position.y
    THEN Attempt(rs, F, diode_pad_position, switch_pad_position, layer)
    ELSE route_two_segments(rs, F, diode_pad_position,
             route_corner(diode_pad_position, switch_pad_position, angle),
             switch_pad_position, layer)

get_side(f) == f.flipped

\* route_switch_with_diode(switch, diode, angle, template_track_points) on
\* the board with tracks T0 and footprints F: the tracks afterwards and the
\* add_track_segment_by_points calls made
route_switch_with_diode(T0, F, switch, diode, angle, template_track_points) ==
    route_pads(Routing(T0, <<>>, PadPosition(diode, "2", F[diode])), F,
               PadPosition(switch, "2", F[switch]), PadPosition(diode, "2", F[diode]),
               angle, template_track_points,
               IF get_side(F[diode]) = BACK THEN B_Cu ELSE F_Cu)

-----------------------------------------------------------------------------
(* The coordinate maps on their own: a point and an angle are chosen, the   *)
(* maps are applied to the point one after the other, and the corner of the *)
(* route from the point (as the diode pad) to a second point (as the switch *)
(* pad) is computed as route_switch_with_diode computes it.                 *)

MaxCoord == 2

CoordinatePoints == { Pt(x, y) : <<x, y>> \in (-MaxCoord..MaxCoord) \X (-MaxCoord..MaxCoord) }

\* angles whose sine and cosine are whole numbers
Angles == {-90, 0, 90, 180, 270, 360}

CoordinateInit ==
    /\ pc = "coordinates"
    /\ last \in [op : {"point"}, point : CoordinatePoints, angle : Angles,
                 value : {Pt(0, 0)}, maps : {<<>>}, switch : {Pt(0, 0)}]
    /\ tracks = <<>>
    /\ fps = RouterBoard
    /\ cfg = None
    /\ key_distance = None
    /\ current_key = 1
    /\ current_diode = 1
    /\ cell = 0
    /\ placed = <<>>
    /\ template_tracks = <<>>
    /\ column_switch_pads = <<>>
    /\ row_diode_pads = <<>>
    /\ attempts = <<>>

\* the point the next map is applied to
MapArgument == IF last.maps = <<>> THEN last.point ELSE last.value

ToRotated ==
    /\ pc = "coordinates"
    /\ Len(last.maps) < 2
    /\ last' = [last EXCEPT !.op = "map",
                            !.value = position_in_rotated_coordinates(MapArgument, last.angle),
                            !.maps = Append(@, "rotated")]
    /\ UNCHANGED <<pc, tracks, fps, attempts, runState>>

ToCartesian ==
    /\ pc = "coordinates"
    /\ Len(last.maps) < 2
    /\ last' = [last EXCEPT !.op = "map",
                            !.value = position_in_cartesian_coordinates(MapArgument, last.angle),
                            !.maps = Append(@, "cartesian")]
    /\ UNCHANGED <<pc, tracks, fps, attempts, runState>>

\* lines 189-210 with last.point as the diode pad
RouteCorner ==
    /\ pc = "coordinates"
    /\ last.maps = <<>>
    /\ \E switch_pad_position \in CoordinatePoints :
         last' = [last EXCEPT !.op = "corner",
                              !.switch = switch_pad_position,
                              !.value = route_corner(last.point, switch_pad_position, last.angle)]
    /\ pc' = "corner"
    /\ UNCHANGED <<tracks, fps, attempts, runState>>

CoordinateNext == ToRotated \/ ToCartesian \/ RouteCorner

SpecCoordinates == CoordinateInit /\ [][CoordinateNext]_vars

\* C14: position_in_cartesian_coordinates and position_in_rotated_coordinates
\* undo each other: either one applied after the other, with the same angle,
\* gives the point back; at angle 0 (and 360) each of them is the identity;
\* and the corner of the switch-diode route at angle 0 is the corner the
\* path through the rotated frame would give.
C14_MutualInverses ==
    /\ (last.op = "map" /\ Len(last.maps) = 2 /\ last.maps[1] # last.maps[2])
          => last.value = last.point
    /\ (last.op = "map" /\ last.angle \in {0, 360}) => last.value = last.point
    /\ (last.op = "corner" /\ last.angle = 0) =>
          last.value = position_in_cartesian_coordinates(
                           calculate_corner_position_of_switch_diode_route(
                               position_in_rotated_coordinates(last.point, 0),
                               position_in_rotated_coordinates(last.switch, 0)), 0)

\* a point off both axes was mapped forth and back by a quarter turn
C14_Witness ==
    /\ last.op = "map"
    /\ last.maps = <<"rotated", "cartesian">>
    /\ last.angle = 90
    /\ last.point = Pt(1, 2)
    /\ last.value = last.point

\* the corner between two pads that differ in x and y, at angle 0
C14_WitnessCorner ==
    /\ last.op = "corner"
    /\ last.angle = 0
    /\ last.point.x # last.switch.x
    /\ last.point.y # last.switch.y
    /\ last.value # last.point

Smaller(a, b) == IF a < b THEN a ELSE b

\* the corner c of the route from the diode pad d to the switch pad s makes
\* an L: d to c is a diagonal over min(|dx|, |dy|) on each axis towards s,
\* c to s is a leg of non-zero length along the axis of the larger offset
MakesL(d, s, c) ==
    /\ c # d
    /\ c # s
    /\ c.x - d.x = Sgn(s.x - d.x) * Smaller(Abs(s.x - d.x), Abs(s.y - d.y))
    /\ c.y - d.y = Sgn(s.y - d.y) * Smaller(Abs(s.x - d.x), Abs(s.y - d.y))
    /\ IF Abs(s.x - d.x) < Abs(s.y - d.y)
       THEN c.x = s.x /\ c.y # s.y
       ELSE c.y = s.y /\ c.x # s.x

\* C20: for a diode pad and a switch pad that differ in both x and y, at
\* angle 0, calculate_corner_position_of_switch_diode_route returns a corner
\* distinct from both pads such that diode pad to corner is a diagonal
\* covering min(|dx|, |dy|) on each axis towards the switch pad, and corner
\* to switch pad is an axis-aligned leg of non-zero length along the axis
\* with the larger offset.
C20_CornerMakesL ==
    ( /\ pc = "corner"
      /\ last.angle = 0
      /\ last.point.x # last.switch.x
      /\ last.point.y # last.switch.y )
    => MakesL(last.point, last.switch, last.value)

\* the same for the pads whose offsets differ in size
C20_CornerMakesLUnequal ==
    ( /\ pc = "corner"
      /\ last.angle = 0
      /\ last.point.x # last.switch.x
      /\ last.point.y # last.switch.y
      /\ Abs(last.point.x - last.switch.x) # Abs(last.point.y - last.switch.y) )
    => MakesL(last.point, last.switch, last.value)

-----------------------------------------------------------------------------
(* check_if_diode_routed                                                    *)

\* the first track of the list ids (indices into T, in board order) that
\* starts or ends at search_point; 0 when there is none (lines 266-274)
RECURSIVE first_found(_, _, _, _)
first_found(T, ids, search_point, k) ==
    IF k > Len(ids) THEN 0
    ELSE IF T[ids[k]].start = search_point \/ T[ids[k]].end = search_point THEN k
    ELSE first_found(T, ids, search_point, k + 1)

\* a walk that always leaves a track at its end
next_search_point_end(t, search_point) == t.end

\* line 276
next_search_point(t, search_point) == IF t.start = search_point THEN t.end ELSE t.start

\* lines 265-279: n iterations are left; found is the position in ids of
\* the track to follow.  st.points is points_sorted, st.removed the indices
\* of the tracks taken from the board.
RECURSIVE follow_tracks(_, _, _, _, _)
followed(T, ids, search_point, n, st, found) ==
    IF found = 0 THEN st
    ELSE follow_tracks(T, Without(ids, found), next_search_point(T[ids[found]], search_point),
                       n - 1,
                       [points |-> Append(st.points, search_point),
                        removed |-> st.removed \cup {ids[found]}])

follow_tracks(T, ids, search_point, n, st) ==
    IF n = 0 THEN st
    ELSE followed(T, ids, search_point, n, st, first_found(T, ids, search_point, 1))

\* line 250: the tracks whose net name is the net name of both pads
RECURSIVE net_tracks(_, _, _, _)
net_tracks(T, net1, net2, i) ==
    IF i > Len(T) THEN <<>>
    ELSE IF NetName(T[i].net) = NetName(net1) /\ NetName(net1) = NetName(net2)
    THEN <<i>> \o net_tracks(T, net1, net2, i + 1)
    ELSE net_tracks(T, net1, net2, i + 1)

\* the board without the tracks whose index is in R
RECURSIVE remove_tracks(_, _, _)
remove_tracks(T, R, i) ==
    IF i > Len(T) THEN <<>>
    ELSE IF i \in R THEN remove_tracks(T, R, i + 1)
    ELSE <<T[i]>> \o remove_tracks(T, R, i + 1)

\* lines 280-284
reduced_points(points_sorted, switch_pad_position, diode_pad_position) ==
    IF points_sorted # <<>>
    THEN [k \in 1..Len(points_sorted) |->
            IF k < Len(points_sorted) THEN PtSub(points_sorted[k + 1], diode_pad_position)
            ELSE PtSub(switch_pad_position, diode_pad_position)]
    ELSE <<>>

template_result(T, st, switch_pad_position, diode_pad_position) ==
    [board |-> remove_tracks(T, st.removed, 1),
     template |-> reduced_points(st.points, switch_pad_position, diode_pad_position)]

template_search(T, ids, switch_pad_position, diode_pad_position) ==
    template_result(T,
        follow_tracks(T, ids, diode_pad_position, Len(ids) + 1, [points |-> <<>>, removed |-> {}]),
        switch_pad_position, diode_pad_position)

\* check_if_diode_routed(key_format, diode_format) when both footprints
\* exist: the board's tracks afterwards and the returned offsets
check_if_diode_routed(T, F, key_format, diode_format) ==
    template_search(T,
        net_tracks(T, F[Format(key_format, 1)].nets["2"], F[Format(diode_format, 1)].nets["2"], 1),
        PadPosition(Format(key_format, 1), "2", F[Format(key_format, 1)]),
        PadPosition(Format(diode_format, 1), "2", F[Format(diode_format, 1)]))


-----------------------------------------------------------------------------
(* Template detection and replay on the first pair: check_if_diode_routed   *)
(* followed by route_switch_with_diode at angle 0, on a board that holds    *)
(* SW1, D1 and some hand-made tracks between the points of TemplatePoints.  *)

MaxTemplate == 3

\* diode pad 2, the corner of the automatic route, switch pad 2, another point
TemplatePoints == {Pt(4, 1), Pt(2, -1), Pt(2, -5), Pt(5, -2)}

\* tracks of the pair's net between these points, in either direction, and
\* four tracks of the column's net: one from the diode pad, one across the
\* first leg of the automatic route, one across its second leg only, and one
\* beside the fourth point
TemplateTracks(layer) ==
    { Track(ab[1], ab[2], layer, PairNet(1)) :
        ab \in { pq \in TemplatePoints \X TemplatePoints : pq[1] # pq[2] } }
    \cup { Track(Pt(4, 1), Pt(5, -2), layer, ColumnNet(1)),
           Track(Pt(2, 1), Pt(4, -1), layer, ColumnNet(1)),
           Track(Pt(0, -3), Pt(3, -3), layer, ColumnNet(1)),
           Track(Pt(6, -1), Pt(7, -1), layer, ColumnNet(1)) }

TemplateBoards ==
    UNION { [1..n -> TemplateTracks(layer)] : <<n, layer>> \in (0..MaxTemplate) \X Layers }

\* pad 2 of D1 is on the net of pad 2 of SW1, or on another net
TemplateFootprints ==
    { RouterBoard,
      [RouterBoard EXCEPT ![Format(DIODE_FORMAT, 1)].nets = Nets(<<RowNet(1), OtherNet(1)>>)] }

TemplateInit ==
    /\ pc = "template"
    /\ tracks \in TemplateBoards
    /\ fps \in TemplateFootprints
    /\ (fps # RouterBoard => Len(tracks) <= 1)
    /\ cfg = None
    /\ key_distance = None
    /\ current_key = 1
    /\ current_diode = 1
    /\ cell = 0
    /\ placed = <<>>
    /\ template_tracks = <<>>
    /\ column_switch_pads = <<>>
    /\ row_diode_pads = <<>>
    /\ attempts = <<>>
    /\ last = NoCall

Checked(r) ==
    /\ tracks' = r.board
    /\ template_tracks' = r.template

\* template_tracks = self.check_if_diode_routed(key_format, diode_format);
\* last.before keeps the board as it was before the call
CheckIfDiodeRouted ==
    /\ pc = "template"
    /\ Checked(check_if_diode_routed(tracks, fps, KEY_FORMAT, DIODE_FORMAT))
    /\ last' = [NoCall EXCEPT !.op = "check", !.before = tracks]
    /\ pc' = "replay"
    /\ UNCHANGED <<fps, cfg, key_distance, current_key, current_diode, cell, placed,
                   column_switch_pads, row_diode_pads, attempts>>

Routed(rs) ==
    /\ tracks' = rs.board
    /\ attempts' = attempts \o rs.attempts

\* route_switch_with_diode(SW1, D1, 0, template_tracks) with the pads where
\* they were when the template was taken
ReplayTemplate ==
    /\ pc = "replay"
    /\ Routed(route_switch_with_diode(tracks, fps, Format(KEY_FORMAT, 1),
                                      Format(DIODE_FORMAT, 1), 0, template_tracks))
    /\ last' = [last EXCEPT !.op = "replay"]
    /\ pc' = "replayed"
    /\ UNCHANGED <<fps, runState>>

TemplateNext == CheckIfDiodeRouted \/ ReplayTemplate

SpecTemplate == TemplateInit /\ [][TemplateNext]_vars

Range(f) == { f[i] : i \in DOMAIN f }

\* the points passed when walking from point p along the tracks c[1], c[2], ...
\* of B; the walk stops early at a track that does not start or end where
\* the walk has arrived
RECURSIVE ChainWalk(_, _, _)
ChainWalk(B, c, p) ==
    IF c = <<>> THEN <<p>>
    ELSE IF B[c[1]].start = p THEN <<p>> \o ChainWalk(B, Tail(c), B[c[1]].end)
    ELSE IF B[c[1]].end = p THEN <<p>> \o ChainWalk(B, Tail(c), B[c[1]].start)
    ELSE <<>>

\* the chains of tracks of B on the net `net` that lead from point d to point s
Chains(B, net, d, s) ==
    { c \in UNION { [1..k -> DOMAIN B] : k \in 1..Len(B) } :
        /\ \A i \in DOMAIN c : \A j \in DOMAIN c : c[i] = c[j] => i = j
        /\ \A i \in DOMAIN c : NetName(B[c[i]].net) = NetName(net)
        /\ Len(ChainWalk(B, c, d)) = Len(c) + 1
        /\ ChainWalk(B, c, d)[Len(c) + 1] = s }

SwitchPad2 == PadPosition(Format(KEY_FORMAT, 1), "2", fps[Format(KEY_FORMAT, 1)])
DiodePad2 == PadPosition(Format(DIODE_FORMAT, 1), "2", fps[Format(DIODE_FORMAT, 1)])
SwitchNet2 == fps[Format(KEY_FORMAT, 1)].nets["2"]
DiodeNet2 == fps[Format(DIODE_FORMAT, 1)].nets["2"]

\* the tracks c of the board B were taken as the template and replayed
TemplateOf(B, c, walk) ==
    /\ pc = "replay" => tracks = remove_tracks(B, Range(c), 1)
    /\ Len(template_tracks) = Len(c)
    /\ \A i \in DOMAIN c : template_tracks[i] = PtSub(walk[i + 1], DiodePad2)
    /\ pc = "replayed" =>
         /\ Len(attempts) = Len(c)
         /\ \A i \in DOMAIN c :
              attempts[i].track.start = walk[i] /\ attempts[i].track.end = walk[i + 1]

\* a track of the pads' net touches the diode pad
TouchesDiodePad(B) ==
    \E i \in DOMAIN B :
        /\ NetName(B[i].net) = NetName(DiodeNet2)
        /\ (Len2(B[i].start, DiodePad2) <= PadRadius * PadRadius
            \/ Len2(B[i].end, DiodePad2) <= PadRadius * PadRadius)

\* C10: if pad 2 of SW1 and pad 2 of D1 are on the same net and a chain of
\* k >= 1 tracks of that net leads from the diode pad to the switch pad,
\* check_if_diode_routed removes exactly those k tracks and returns k
\* offsets relative to the diode pad, and the replay at angle 0 attempts
\* segments with the end points of the removed chain; if no track of that
\* net touches the diode pad, the board is unchanged and the template empty.
C10_TemplateRoundTrip ==
    pc \in {"replay", "replayed"} =>
        /\ NetName(SwitchNet2) = NetName(DiodeNet2) =>
             \A c \in Chains(last.before, SwitchNet2, DiodePad2, SwitchPad2) :
                 TemplateOf(last.before, c, ChainWalk(last.before, c, DiodePad2))
        /\ (NetName(SwitchNet2) = NetName(DiodeNet2) /\ ~TouchesDiodePad(last.before)) =>
             /\ template_tracks = <<>>
             /\ pc = "replay" => tracks = last.before


\* the walk passes no point twice
SimpleWalk(walk) == \A i \in DOMAIN walk : \A j \in DOMAIN walk : walk[i] = walk[j] => i = j

\* no track of the net outside the chain c starts or ends at a point of the walk
NoBranch(B, c, walk) ==
    \A i \in DOMAIN B \ Range(c) :
        NetName(B[i].net) = NetName(SwitchNet2) =>
            \A j \in DOMAIN walk : B[i].start # walk[j] /\ B[i].end # walk[j]

\* where the replay starts segment i: at the end of the last accepted segment
ReplayStart(i) ==
    IF i = 1 THEN DiodePad2
    ELSE IF attempts[i - 1].result # None THEN attempts[i - 1].track.end
    ELSE attempts[i - 1].track.start

Accepted(log) == \A i \in DOMAIN log : log[i].result # None

\* the chain c of the board B was taken as the template and replayed
ReplayOf(B, c, walk) ==
    /\ pc = "replay" => tracks = remove_tracks(B, Range(c), 1)
    /\ Len(template_tracks) = Len(c)
    /\ \A i \in DOMAIN c : template_tracks[i] = PtSub(walk[i + 1], DiodePad2)
    /\ pc = "replayed" =>
         /\ Len(attempts) = Len(c)
         /\ \A i \in DOMAIN c :
              attempts[i].track.end = walk[i + 1] /\ attempts[i].track.start = ReplayStart(i)
         /\ Accepted(attempts) =>
              /\ Len(tracks) = Len(B)
              /\ \A i \in DOMAIN c :
                   /\ tracks[Len(B) - Len(c) + i].start = walk[i]
                   /\ tracks[Len(B) - Len(c) + i].end = walk[i + 1]

\* C10 (amended): if pad 2 of SW1 and pad 2 of D1 are on the same net and a
\* chain of k >= 1 tracks of that net leads from the diode pad to the switch
\* pad without passing a point twice, and no other track of that net starts
\* or ends at a point of the chain, check_if_diode_routed removes exactly
\* those k tracks and returns k offsets relative to the diode pad; the
\* replay at angle 0 attempts k segments, the i-th ending at the chain's
\* i-th point and starting at the end of the last accepted segment, so that,
\* when no segment is rejected, the added tracks have the end points of the
\* removed chain.  If no track of that net touches the diode pad, the board
\* is unchanged and the template is empty.
C10_SimpleChainRoundTrip ==
    pc \in {"replay", "replayed"} =>
        /\ NetName(SwitchNet2) = NetName(DiodeNet2) =>
             \A c \in Chains(last.before, SwitchNet2, DiodePad2, SwitchPad2) :
                 ( /\ SimpleWalk(ChainWalk(last.before, c, DiodePad2))
                   /\ NoBranch(last.before, c, ChainWalk(last.before, c, DiodePad2)) )
                 => ReplayOf(last.before, c, ChainWalk(last.before, c, DiodePad2))
        /\ (NetName(SwitchNet2) = NetName(DiodeNet2) /\ ~TouchesDiodePad(last.before)) =>
             /\ template_tracks = <<>>
             /\ pc = "replay" => tracks = last.before

\* a chain of two tracks, one of them running towards the diode, was taken
\* and replayed without a rejection
C10_Witness ==
    /\ pc = "replayed"
    /\ Len(attempts) = 2
    /\ Accepted(attempts)
    /\ \E c \in Chains(last.before, SwitchNet2, DiodePad2, SwitchPad2) :
         /\ Len(c) = 2
         /\ SimpleWalk(ChainWalk(last.before, c, DiodePad2))
         /\ NoBranch(last.before, c, ChainWalk(last.before, c, DiodePad2))
         /\ \E i \in DOMAIN c : last.before[c[i]].end = ChainWalk(last.before, c, DiodePad2)[i]

\* the first segment of a replayed chain was rejected
C10_WitnessRejected ==
    /\ pc = "replayed"
    /\ Len(attempts) = 2
    /\ attempts[1].result = None
    /\ \E c \in Chains(last.before, SwitchNet2, DiodePad2, SwitchPad2) :
         /\ Len(c) = 2
         /\ SimpleWalk(ChainWalk(last.before, c, DiodePad2))
         /\ NoBranch(last.before, c, ChainWalk(last.before, c, DiodePad2))

\* tracks of the pads' net are on the board, none touches the diode pad
C10_WitnessNoTemplate ==
    /\ pc = "replayed"
    /\ NetName(SwitchNet2) = NetName(DiodeNet2)
    /\ \E i \in DOMAIN last.before : last.before[i].net = SwitchNet2
    /\ ~TouchesDiodePad(last.before)
    /\ template_tracks = <<>>

\* the segments of the replay that were added, in the order of the calls
AddedSegments == SelectSeq(attempts, LAMBDA a : a.result # None)

\* the last Len(added) tracks of the board B run as the segments of `added`
AddedLast(B, added) ==
    /\ Len(B) >= Len(added)
    /\ \A j \in DOMAIN added :
         /\ B[Len(B) - Len(added) + j].start = added[j].track.start
         /\ B[Len(B) - Len(added) + j].end = added[j].track.end
         /\ added[j].result = <<added[j].track.end>>

\* the segments of `added` are one chain that starts at point p
ChainFrom(added, p) ==
    \A j \in DOMAIN added :
        added[j].track.start = (IF j = 1 THEN p ELSE added[j - 1].track.end)

\* C18: during the replay of a template in route_switch_with_diode every
\* attempted segment starts at the diode pad or at the end of the segment
\* added last, so the tracks added for the pair are one continuous chain
\* that starts at the diode pad; a rejected segment does not stop the
\* replay: the next segment is attempted from the last end point reached to
\* the next template point, and every template point is attempted exactly
\* once, in order.
C18_ReplayChained ==
    (pc = "replayed" /\ template_tracks # <<>>) =>
        /\ Len(attempts) = Len(template_tracks)
        /\ \A i \in DOMAIN attempts :
             /\ attempts[i].track.end = PtAdd(template_tracks[i], DiodePad2)
             /\ attempts[i].track.start = ReplayStart(i)
        /\ AddedLast(tracks, AddedSegments)
        /\ ChainFrom(AddedSegments, DiodePad2)

\* the first segment of a template of two points was rejected, and the
\* second was added: it runs from the diode pad to the second point
C18_Witness ==
    /\ pc = "replayed"
    /\ Len(template_tracks) = 2
    /\ attempts[1].result = None
    /\ attempts[2].result # None
    /\ attempts[2].track.start = DiodePad2
    /\ Len(tracks) = Len(last.before) - 1

\* the first segment was added and the second rejected
C18_WitnessSecondRejected ==
    /\ pc = "replayed"
    /\ Len(template_tracks) = 2
    /\ attempts[1].result # None
    /\ attempts[2].result = None


-----------------------------------------------------------------------------
(* KeyPlacer: construction and run                                          *)

\* Layout values (x, y, width, height, rotation_x, rotation_y) are written
\* in quarters of a key unit: KLE's 1.25 is 5.
KU == 4

Key(x, y, width, height, angle, rotation_x, rotation_y) ==
    [x |-> x, y |-> y, width |-> width, height |-> height,
     width2 |-> width, height2 |-> height,
     rotation_angle |-> angle, rotation_x |-> rotation_x, rotation_y |-> rotation_y]

\* @dataclass Spacing, in hundredths of a millimetre
Spacing(x, y) == [x |-> x, y |-> y]

\* @dataclass DiodePosition; relative_position in hundredths of a millimetre
DiodePosition(relative_position, orientation, side) ==
    [relative_position |-> relative_position, orientation |-> orientation, side |-> side]

\* self.__reference_coordinate = pcbnew.wxPointMM(25, 25)
reference_coordinate == Pt(FromMM(2500), FromMM(2500))

\* lines 313-321.  The products are whole numbers for the key distances of
\* the model, as they are for pcbnew's (multiples of 8 units).
key_position(kd, key) ==
    PtAdd(Pt((kd * key.x) \div KU + ((kd * key.width) \div KU) \div 2,
             (kd * key.y) \div KU + ((kd * key.height) \div KU) \div 2),
          reference_coordinate)

\* lines 348-354
rotation_reference(kd, key) ==
    PtAdd(Pt((kd * key.rotation_x) \div KU, (kd * key.rotation_y) \div KU),
          reference_coordinate)

set_position(f, position) == [f EXCEPT !.pos = position]

set_relative_position_mm(f, reference_point, direction) ==
    set_position(f, Pt(reference_point.x + FromMM(direction.x),
                       reference_point.y + FromMM(direction.y)))

SetOrientationDegrees(f, degrees) == [f EXCEPT !.orient = NormAngle(degrees)]

reset_rotation(f) == SetOrientationDegrees(f, 0)

\* footprint.Flip(footprint.GetPosition(), False): the footprint changes
\* side in place and its orientation is mirrored
Flip(f) == [f EXCEPT !.flipped = ~@, !.orient = NormAngle(-@)]

set_side(f, side) == IF side # get_side(f) THEN Flip(f) ELSE f

\* footprint.Rotate(rotation_reference, angle * -10)
rotate(f, reference, angle) ==
    [f EXCEPT !.pos = PtAdd(reference, RotatePoint(PtSub(@, reference), -angle)),
              !.orient = NormAngle(@ - angle)]

\* lines 322-323
place_switch(F, switch, position) ==
    [F EXCEPT ![switch] = reset_rotation(set_position(@, position))]

\* line 331: the special case of the ISO enter key
is_iso_enter(key) ==
    key.width = 5 /\ key.height = 8 /\ key.width2 = 6 /\ key.height2 = 4

\* lines 325-332; FindFootprintByReference returned None when the board has
\* no such stabilizer
place_stabilizer(F, stabilizer, position, key) ==
    IF stabilizer \in DOMAIN F
    THEN [F EXCEPT ![stabilizer] =
            SetOrientationDegrees(set_position(@, position),
                                  IF is_iso_enter(key) THEN 90 ELSE 0)]
    ELSE F

\* a placement that leaves the diode on the side it is on
place_diode_same_side(F, diode, position, diode_position) ==
    [F EXCEPT ![diode] =
        set_relative_position_mm(
            SetOrientationDegrees(reset_rotation(@), diode_position.orientation),
            position, diode_position.relative_position)]

\* lines 337-344
place_diode(F, diode, position, diode_position) ==
    [F EXCEPT ![diode] =
        set_relative_position_mm(
            SetOrientationDegrees(set_side(reset_rotation(@), diode_position.side),
                                  diode_position.orientation),
            position, diode_position.relative_position)]

\* lines 346-359: the footprints refs of the cell are turned about the pivot
rotate_cell(F, refs, reference, angle) ==
    IF angle # 0
    THEN [ref \in DOMAIN F |-> IF ref \in refs THEN rotate(F[ref], reference, angle) ELSE F[ref]]
    ELSE F

\* dict.setdefault(key, []).append(pad) on a dict kept in insertion order
AddToGroup(groups, key, pad) ==
    IF \E i \in DOMAIN groups : groups[i].key = key
    THEN [i \in DOMAIN groups |->
            IF groups[i].key = key
            THEN [groups[i] EXCEPT !.pads = Append(@, pad)] ELSE groups[i]]
    ELSE Append(groups, [key |-> key, pads |-> <<pad>>])

\* a classification by the number alone, whatever the name of the net
classify_pad_any_name(groups, net, prefix, pad) == AddToGroup(groups, NetName(net)[2], pad)

\* lines 362-380: re.match(r"^COL(\d+)$", net_name), resp. ROW
classify_pad(groups, net, prefix, pad) ==
    IF NetName(net)[1] = prefix THEN AddToGroup(groups, NetName(net)[2], pad) ELSE groups


\* pad.GetPosition() of the pad <<reference, name>>
PositionOf(F, pad) == PadPosition(pad[1], pad[2], F[pad[1]])

AttemptVector(rs, F, start, vector, layer) ==
    Attempted(rs, add_track_segment(rs.board, F, start, vector, layer),
              Track(start, Pt(start.x + vector[1], start.y + vector[2]), layer, 0))

\* lines 409-412: the second segment, when the first was added
column_second_segment(rs, F, pos2) ==
    IF rs.attempts[Len(rs.attempts)].result # None
    THEN Attempt(rs, F, rs.attempts[Len(rs.attempts)].result[1], pos2, F_Cu)
    ELSE rs

\* lines 394-412: two consecutive pads of a column
route_column_pair(rs, F, pos1, pos2) ==
    IF pos1.x = pos2.x THEN Attempt(rs, F, pos1, pos2, F_Cu)
    ELSE IF Abs(pos1.y - pos2.y) - Abs(pos1.x - pos2.x) <= 0 THEN rs
    ELSE column_second_segment(
             AttemptVector(rs, F, pos1,
                           <<0, Abs(pos1.y - pos2.y) - Abs(pos1.x - pos2.x)>>, F_Cu),
             F, pos2)

\* a row routing that connects the pads whatever their y
route_row_pair_any(rs, F, pos1, pos2, layer) == Attempt(rs, F, pos1, pos2, layer)

\* lines 424-429: two consecutive pads of a row
route_row_pair(rs, F, pos1, pos2, layer) ==
    IF pos1.y = pos2.y THEN Attempt(rs, F, pos1, pos2, layer) ELSE rs

\* zip(positions, positions[1:]) from pair i on
RECURSIVE route_column(_, _, _, _)
route_column(rs, F, pads, i) ==
    IF i >= Len(pads) THEN rs
    ELSE route_column(route_column_pair(rs, F, PositionOf(F, pads[i]), PositionOf(F, pads[i + 1])),
                      F, pads, i + 1)

RECURSIVE route_row(_, _, _, _, _)
route_row(rs, F, pads, i, layer) ==
    IF i >= Len(pads) THEN rs
    ELSE route_row(route_row_pair(rs, F, PositionOf(F, pads[i]), PositionOf(F, pads[i + 1]), layer),
                   F, pads, i + 1, layer)

\* lines 389-412, from group g on
RECURSIVE route_columns(_, _, _, _)
route_columns(rs, F, groups, g) ==
    IF g > Len(groups) THEN rs
    ELSE route_columns(route_column(rs, F, groups[g].pads, 1), F, groups, g + 1)

\* lines 414-429, from group g on
RECURSIVE route_rows(_, _, _, _)
route_rows(rs, F, groups, g) ==
    IF g > Len(groups) THEN rs
    ELSE route_rows(
             route_row(rs, F, groups[g].pads, 1,
                       IF get_side(F[groups[g].pads[1][1]]) = BACK THEN B_Cu ELSE F_Cu),
             F, groups, g + 1)

-----------------------------------------------------------------------------
(* The inputs of a run: the layout, the arguments, the board.               *)

MaxKeys == 2

\* key cells: (0,0), (1,0), (0,1), a 1.5 wide key at (0.25,1), a key at
\* (0,1) turned by 90 degrees about its upper left corner, and a key at
\* (0.25,0.25), diagonally below the first and above the cells of the
\* second row
KeyCells ==
    << Key(0, 0, 4, 4, 0, 0, 0), Key(4, 0, 4, 4, 0, 0, 0), Key(0, 4, 4, 4, 0, 0, 0),
       Key(1, 4, 6, 4, 0, 0, 0), Key(0, 4, 4, 4, 90, 0, 4), Key(1, 1, 4, 4, 0, 0, 0) >>

\* the layouts of up to MaxKeys of these cells, in the order above
Layouts ==
    { [k \in 1..n |-> KeyCells[f[k]]] :
        <<n, f>> \in { nf \in UNION { {m} \X [1..m -> DOMAIN KeyCells] : m \in 1..MaxKeys } :
                        \A i \in 1..nf[1] : \A j \in 1..nf[1] : i < j => nf[2][i] < nf[2][j] } }

\* key_spacing: a square grid and one that is wider than high
Spacings == {Spacing(400, 400), Spacing(600, 400)}

\* the diode right of and below the switch, turned, on the back; the same
\* with pad 2 above switch pad 2; on the front, not turned; with pad 2
\* diagonally below switch pad 2
DiodePositions ==
    { DiodePosition(Pt(100, 75), 90, BACK), DiodePosition(Pt(50, 75), 90, BACK),
      DiodePosition(Pt(100, 75), 0, FRONT), DiodePosition(Pt(150, 25), 90, BACK) }

\* what the module's globals hold for the free name key_distance that
\* __init__ reads (line 80): nothing, or a distance
KeyDistances == {None, Some(400)}

Configs ==
    [layout : Layouts,
     diode_position : {None} \cup { Some(d) : d \in DiodePositions },
     route_tracks : BOOLEAN,
     key_spacing : Spacings,
     globals_key_distance : KeyDistances]

\* the column and row of the schematic a key cell belongs to
CellColumn(key) == key.x \div KU + 1
CellRow(key) == key.y \div KU + 1

\* where the footprints lie before the run: all switches on one spot and
\* all diodes on another, as after an import of the netlist
InitialFootprints ==
    { <<Footprint(Pt(0, 0), 0, FRONT, <<0, 0>>), Footprint(Pt(4, 3), 90, BACK, <<0, 0>>)>>,
      <<Footprint(Pt(0, 0), 90, FRONT, <<0, 0>>), Footprint(Pt(6, -3), 180, FRONT, <<0, 0>>)>> }

References(n) ==
    { Format(KEY_FORMAT, k) : k \in 1..n } \cup { Format(DIODE_FORMAT, k) : k \in 1..n }
    \cup {Format(STABILIZER_FORMAT, 1)}

\* the pads 1 whose net has a name that is neither COL<N> nor ROW<N>: none,
\* the one of the first switch, or the one of the first diode
UnrecognizedPads == { {}, {Format(KEY_FORMAT, 1)}, {Format(DIODE_FORMAT, 1)} }

\* the board for a layout: switch k has pad 1 on its column's net, diode k
\* pad 1 on its row's net, and their pads 2 share the net of pair k
InitialFootprint(layout, ref, sw, d, other) ==
    IF ref[1] = KEY_FORMAT
    THEN [sw EXCEPT !.nets =
            Nets(<<IF ref \in other THEN OtherNet(1) ELSE ColumnNet(CellColumn(layout[ref[2]])),
                   PairNet(ref[2])>>)]
    ELSE IF ref[1] = DIODE_FORMAT
    THEN [d EXCEPT !.nets =
            Nets(<<IF ref \in other THEN OtherNet(2) ELSE RowNet(CellRow(layout[ref[2]])),
                   PairNet(ref[2])>>)]
    ELSE sw

Boards(layout) ==
    { [ref \in References(Len(layout)) \ mf[1] |->
          InitialFootprint(layout, ref, mf[2][1], mf[2][2], mf[3])] :
        mf \in
            ( ( { {Format(STABILIZER_FORMAT, 1)}, {} }
                \cup { {Format(STABILIZER_FORMAT, 1), Format(KEY_FORMAT, m)} : m \in DOMAIN layout }
                \cup { {Format(STABILIZER_FORMAT, 1), Format(DIODE_FORMAT, m)} : m \in DOMAIN layout } )
              \X InitialFootprints \X UnrecognizedPads ) }

\* the first pair as routed by hand, over a corner with two straight legs
HandRoute(d, s, layer) ==
    IF d.x = s.x \/ d.y = s.y THEN <<Track(d, s, layer, PairNet(1))>>
    ELSE <<Track(d, Pt(s.x, d.y), layer, PairNet(1)), Track(s, Pt(s.x, d.y), layer, PairNet(1))>>

\* the tracks on the board before the run: none, or the first pair routed
InitialTracks(F) ==
    IF Format(KEY_FORMAT, 1) \in DOMAIN F /\ Format(DIODE_FORMAT, 1) \in DOMAIN F
    THEN { <<>>,
           HandRoute(PadPosition(Format(DIODE_FORMAT, 1), "2", F[Format(DIODE_FORMAT, 1)]),
                     PadPosition(Format(KEY_FORMAT, 1), "2", F[Format(KEY_FORMAT, 1)]),
                     IF get_side(F[Format(DIODE_FORMAT, 1)]) = BACK THEN B_Cu ELSE F_Cu) }
    ELSE {<<>>}

Init ==
    /\ pc = "new"
    /\ cfg \in Configs
    /\ fps \in Boards(cfg.layout)
    /\ tracks \in InitialTracks(fps)
    /\ key_distance = None
    /\ current_key = 0
    /\ current_diode = 0
    /\ cell = 0
    /\ placed = <<>>
    /\ template_tracks = <<>>
    /\ column_switch_pads = <<>>
    /\ row_diode_pads = <<>>
    /\ attempts = <<>>
    /\ last = NoCall


-----------------------------------------------------------------------------
(* The steps of KeyPlacer(logger, board, layout, key_spacing) followed by   *)
(* run(key_format, stabilizer_format, diode_format, diode_position,         *)
(* route_tracks).                                                           *)

Started(op) == last' = [NoCall EXCEPT !.op = op, !.before = tracks]

\* KeyPlacer.__init__: line 80 reads the name key_distance, which is not a
\* parameter (the parameter is key_spacing): the constructor raises
\* NameError unless the module's globals bind the name
Construct ==
    /\ pc = "new"
    /\ IF cfg.globals_key_distance = None
       THEN /\ pc' = "name_error"
            /\ UNCHANGED <<key_distance, current_key, current_diode>>
       ELSE /\ key_distance' = Some(FromMM(cfg.globals_key_distance[1]))
            /\ current_key' = 1
            /\ current_diode' = 1
            /\ pc' = "constructed"
    /\ Started("init")
    /\ UNCHANGED <<tracks, fps, cfg, cell, placed, template_tracks,
                   column_switch_pads, row_diode_pads, attempts>>

\* lines 296-305: the template is taken when tracks are to be routed;
\* get_footprint raises when SW1 or D1 is not on the board
StartRun ==
    /\ pc = "constructed"
    /\ IF ~cfg.route_tracks
       THEN pc' = "loop" /\ cell' = 1 /\ UNCHANGED <<tracks, template_tracks>>
       ELSE IF Format(KEY_FORMAT, 1) \notin DOMAIN fps \/ Format(DIODE_FORMAT, 1) \notin DOMAIN fps
       THEN pc' = "raised" /\ UNCHANGED <<cell, tracks, template_tracks>>
       ELSE /\ Checked(check_if_diode_routed(tracks, fps, KEY_FORMAT, DIODE_FORMAT))
            /\ pc' = "loop"
            /\ cell' = 1
    /\ Started("start")
    /\ UNCHANGED <<fps, cfg, key_distance, current_key, current_diode, placed,
                   column_switch_pads, row_diode_pads, attempts>>

\* a numbering that hands out the same switch again
get_current_key_again(n) == [key |-> Format(KEY_FORMAT, n), current_key |-> n]

\* get_current_key with self.__current_key = n: the reference of the switch
\* it looks up and the counter afterwards (lines 89, 98)
get_current_key(n) == [key |-> Format(KEY_FORMAT, n), current_key |-> n + 1]

\* get_current_diode with self.__current_diode = n (lines 103-104)
get_current_diode(n) == [diode |-> Format(DIODE_FORMAT, n), current_diode |-> n + 1]

\* a run that returns after the loop over the key cells
AfterCell_without_routing(k) == IF k < Len(cfg.layout) THEN "loop" ELSE "done"

\* a run that routes every pair that has a diode, asked to or not
pair_is_routed_always(route_tracks, diode_position) == diode_position # None

\* line 382: if route_tracks and diode_footprint
pair_is_routed(route_tracks, diode_position) == route_tracks /\ diode_position # None

\* where run goes after the body of the loop for cell k
AfterCell(k) ==
    IF k < Len(cfg.layout) THEN "loop"
    ELSE IF cfg.route_tracks THEN "columns" ELSE "done"

\* a lookup whose failure is swallowed: run goes on behind the cell
get_footprint_failed_quietly(k) == AfterCell(k)

\* get_footprint (board_modifier.py lines 36-39) raises for a reference the
\* board does not have; nothing in run catches it, so run ends at cell k
get_footprint_failed(k) == "raised"

\* the footprints of the present cell that are turned with it
CellFootprints(F) ==
    {get_current_key(current_key).key}
    \cup ({Format(STABILIZER_FORMAT, current_key)} \cap DOMAIN F)
    \cup (IF cfg.diode_position # None THEN {get_current_diode(current_diode).diode} ELSE {})

\* lines 307-332 for the key cell `key`
switch_placed(F, key, kd) ==
    place_stabilizer(place_switch(F, get_current_key(current_key).key, key_position(kd, key)),
                     Format(STABILIZER_FORMAT, current_key), key_position(kd, key), key)

\* lines 334-344
diode_placed(F, key, kd) ==
    IF cfg.diode_position # None
    THEN place_diode(F, get_current_diode(current_diode).diode, key_position(kd, key),
                     cfg.diode_position[1])
    ELSE F

\* lines 307-359
cell_placed(F, key, kd) ==
    rotate_cell(diode_placed(switch_placed(F, key, kd), key, kd),
                CellFootprints(F), rotation_reference(kd, key), key.rotation_angle)

\* what run knows of the cell after placing it
PlacedCell(key, kd) ==
    [switch |-> get_current_key(current_key).key,
     diode |-> IF cfg.diode_position # None
               THEN Some(get_current_diode(current_diode).diode) ELSE None,
     position |-> key_position(kd, key),
     key |-> key,
     routed |-> FALSE,
     route |-> <<>>]

\* lines 306-380 for the cell the loop is at: the switch (and stabilizer) is
\* placed, then the diode, both are turned, their pads 1 are sorted into the
\* column and row groups.  get_footprint raises when the switch or the
\* diode is not on the board; the switch is placed by then in the second case.
PlaceCell ==
    /\ pc = "loop"
    /\ IF get_current_key(current_key).key \notin DOMAIN fps
       THEN /\ pc' = get_footprint_failed(cell)
            /\ UNCHANGED <<fps, current_key, current_diode, cell, placed,
                           column_switch_pads, row_diode_pads>>
       ELSE IF cfg.diode_position # None /\ get_current_diode(current_diode).diode \notin DOMAIN fps
       THEN /\ fps' = switch_placed(fps, cfg.layout[cell], key_distance[1])
            /\ current_key' = get_current_key(current_key).current_key
            /\ pc' = get_footprint_failed(cell)
            /\ UNCHANGED <<current_diode, cell, placed, column_switch_pads, row_diode_pads>>
       ELSE /\ fps' = cell_placed(fps, cfg.layout[cell], key_distance[1])
            /\ current_key' = get_current_key(current_key).current_key
            /\ current_diode' = IF cfg.diode_position # None
                                THEN get_current_diode(current_diode).current_diode
                                ELSE current_diode
            /\ placed' = Append(placed, PlacedCell(cfg.layout[cell], key_distance[1]))
            /\ column_switch_pads' =
                 classify_pad(column_switch_pads, fps[get_current_key(current_key).key].nets["1"],
                              "COL", <<get_current_key(current_key).key, "1">>)
            /\ row_diode_pads' =
                 IF cfg.diode_position # None
                 THEN classify_pad(row_diode_pads,
                                   fps[get_current_diode(current_diode).diode].nets["1"],
                                   "ROW", <<get_current_diode(current_diode).diode, "1">>)
                 ELSE row_diode_pads
            /\ IF pair_is_routed(cfg.route_tracks, cfg.diode_position)
               THEN pc' = "route" /\ cell' = cell
               ELSE pc' = AfterCell(cell) /\ cell' = cell + 1
    /\ Started("place")
    /\ UNCHANGED <<tracks, cfg, key_distance, template_tracks, attempts>>

RoutedPair(rs) ==
    /\ Routed(rs)
    /\ placed' = [placed EXCEPT ![cell].routed = TRUE, ![cell].route = rs.attempts]

\* lines 382-385 for the cell just placed
RoutePair ==
    /\ pc = "route"
    /\ RoutedPair(route_switch_with_diode(tracks, fps, placed[cell].switch, placed[cell].diode[1],
                                          cfg.layout[cell].rotation_angle, template_tracks))
    /\ pc' = AfterCell(cell)
    /\ cell' = cell + 1
    /\ Started("route")
    /\ UNCHANGED <<fps, cfg, key_distance, current_key, current_diode, template_tracks,
                   column_switch_pads, row_diode_pads>>

\* lines 389-412
RouteColumns ==
    /\ pc = "columns"
    /\ Routed(route_columns(Routing(tracks, <<>>, None), fps, column_switch_pads, 1))
    /\ pc' = "rows"
    /\ Started("columns")
    /\ UNCHANGED <<fps, runState>>

\* lines 414-429
RouteRows ==
    /\ pc = "rows"
    /\ Routed(route_rows(Routing(tracks, <<>>, None), fps, row_diode_pads, 1))
    /\ pc' = "cleanup"
    /\ Started("rows")
    /\ UNCHANGED <<fps, runState>>

\* line 431
Cleanup ==
    /\ pc = "cleanup"
    /\ \E skip \in [Erasures(tracks, fps) -> BOOLEAN] :
         tracks' = remove_dangling_tracks(tracks, fps, skip)
    /\ pc' = "done"
    /\ Started("cleanup")
    /\ UNCHANGED <<fps, attempts, runState>>

Next ==
    \/ Construct
    \/ StartRun
    \/ PlaceCell
    \/ RoutePair
    \/ RouteColumns
    \/ RouteRows
    \/ Cleanup

Spec == Init /\ [][Next]_vars

\* The call KeyPlacer(...).run(...) is synchronous and nothing suspends it:
\* while it has neither returned nor raised, it goes on to its next step,
\* and every step of Next moves pc or cell.
Running ==
    /\ pc \in {"new", "constructed", "loop", "route", "columns", "rows", "cleanup"}
    /\ pc' \in {"name_error", "constructed", "loop", "route", "columns", "rows", "cleanup",
               "done", "raised"}
    /\ cell' \in {cell, cell + 1}

SpecFair == Spec /\ WF_<<pc, cell>>(Running)


-----------------------------------------------------------------------------
(* Claims about run                                                         *)

\* pad 2 of the switch and of the diode of the placed cell c
SwitchPad(c) == PadPosition(c.switch, "2", fps[c.switch])
DiodePad(c) == PadPosition(c.diode[1], "2", fps[c.diode[1]])

Aligned(c) == SwitchPad(c).x = DiodePad(c).x \/ SwitchPad(c).y = DiodePad(c).y

\* the segment start-end is at 45 degrees in the frame turned by angle
Diagonal(start, end, angle) ==
    Abs(position_in_rotated_coordinates(end, angle).x
        - position_in_rotated_coordinates(start, angle).x)
    = Abs(position_in_rotated_coordinates(end, angle).y
          - position_in_rotated_coordinates(start, angle).y)

\* the board ends with the tracks of the attempts of log, in their order
EndsWith(T, log) ==
    /\ Len(T) >= Len(log)
    /\ \A i \in DOMAIN log :
         /\ T[Len(T) - Len(log) + i].start = log[i].track.start
         /\ T[Len(T) - Len(log) + i].end = log[i].track.end
         /\ T[Len(T) - Len(log) + i].layer = log[i].track.layer

\* C6: route_switch_with_diode without a template attempts exactly one
\* segment, diode pad to switch pad, when the two pads 2 share an x or a y,
\* and otherwise exactly two segments, diode pad to corner and corner to
\* switch pad, the first at 45 degrees in the switch's frame; when none of
\* them is rejected, the board has exactly these tracks more and they lead
\* from the diode pad to the switch pad.
C6_OneOrTwoSegments ==
    \A k \in DOMAIN placed :
        (placed[k].routed /\ template_tracks = <<>>) =>
            /\ Aligned(placed[k]) =>
                 /\ Len(placed[k].route) = 1
                 /\ placed[k].route[1].track.start = DiodePad(placed[k])
                 /\ placed[k].route[1].track.end = SwitchPad(placed[k])
            /\ ~Aligned(placed[k]) =>
                 /\ Len(placed[k].route) = 2
                 /\ placed[k].route[1].track.start = DiodePad(placed[k])
                 /\ placed[k].route[1].track.end = placed[k].route[2].track.start
                 /\ placed[k].route[2].track.end = SwitchPad(placed[k])
                 /\ Diagonal(placed[k].route[1].track.start, placed[k].route[1].track.end,
                             placed[k].key.rotation_angle)
            /\ (last.op = "route" /\ k = Len(placed) /\ Accepted(placed[k].route)) =>
                 /\ Len(tracks) = Len(last.before) + Len(placed[k].route)
                 /\ EndsWith(tracks, placed[k].route)

\* a turned pair was routed with two segments, both added
C6_Witness ==
    /\ last.op = "route"
    /\ template_tracks = <<>>
    /\ placed[Len(placed)].key.rotation_angle # 0
    /\ Len(placed[Len(placed)].route) = 2
    /\ Accepted(placed[Len(placed)].route)

\* a pair with pads 2 in line was routed with one segment
C6_WitnessAligned ==
    /\ last.op = "route"
    /\ template_tracks = <<>>
    /\ Aligned(placed[Len(placed)])
    /\ Accepted(placed[Len(placed)].route)

\* C7: every key cell's switch is placed, before any rotation, at
\* reference_origin + (spacing.x * (x + width/2), spacing.y * (y + height/2))
\* in board units, with the configured horizontal spacing for x and the
\* configured vertical spacing for y.
C7_PositionBySpacing ==
    \A k \in DOMAIN placed :
        /\ 2 * KU * (placed[k].position.x - reference_coordinate.x)
             = FromMM(cfg.key_spacing.x) * (2 * placed[k].key.x + placed[k].key.width)
        /\ 2 * KU * (placed[k].position.y - reference_coordinate.y)
             = FromMM(cfg.key_spacing.y) * (2 * placed[k].key.y + placed[k].key.height)

\* the pivot of the cell c
Pivot(c) ==
    PtAdd(reference_coordinate,
          Pt((key_distance[1] * c.key.rotation_x) \div KU,
             (key_distance[1] * c.key.rotation_y) \div KU))

\* the point p turned clockwise by angle about the pivot
Turned(p, pivot, angle) == PtAdd(pivot, RotatePoint(PtSub(p, pivot), -angle))

\* the position of the diode of the cell c before the cell is turned
DiodeTarget(c) ==
    PtAdd(c.position, Pt(FromMM(cfg.diode_position[1].relative_position.x),
                         FromMM(cfg.diode_position[1].relative_position.y)))

\* C8: with a diode position configured, the diode of every placed cell is
\* on side diode_position.side; for an unrotated cell it has orientation
\* diode_position.orientation and lies at the switch's computed position
\* plus diode_position.relative_position in board units; for a cell with a
\* rotation angle, diode and switch are both turned by that angle about the
\* cell's pivot.
C8_DiodePlacement ==
    \A k \in DOMAIN placed :
        placed[k].diode # None =>
            /\ fps[placed[k].diode[1]].flipped = cfg.diode_position[1].side
            /\ placed[k].key.rotation_angle = 0 =>
                 /\ fps[placed[k].diode[1]].orient = NormAngle(cfg.diode_position[1].orientation)
                 /\ fps[placed[k].diode[1]].pos = DiodeTarget(placed[k])
            /\ placed[k].key.rotation_angle # 0 =>
                 /\ fps[placed[k].diode[1]].orient
                      = NormAngle(cfg.diode_position[1].orientation - placed[k].key.rotation_angle)
                 /\ fps[placed[k].diode[1]].pos
                      = Turned(DiodeTarget(placed[k]), Pivot(placed[k]), placed[k].key.rotation_angle)
                 /\ fps[placed[k].switch].orient = NormAngle(-placed[k].key.rotation_angle)
                 /\ fps[placed[k].switch].pos
                      = Turned(placed[k].position, Pivot(placed[k]), placed[k].key.rotation_angle)

\* the run is over, with a diode on the front side and a turned cell
C8_Witness ==
    /\ pc = "done"
    /\ cfg.diode_position # None
    /\ cfg.diode_position[1].side = FRONT
    /\ \E k \in DOMAIN placed : placed[k].key.rotation_angle # 0

C8_WitnessBack ==
    /\ pc = "done"
    /\ cfg.diode_position # None
    /\ cfg.diode_position[1].side = BACK
    /\ Len(placed) = MaxKeys

C9_Assigned ==
    /\ pc = "constructed" => (current_key = 1 /\ current_diode = 1)
    /\ \A k \in DOMAIN placed :
         /\ placed[k].switch = Format(KEY_FORMAT, k)
         /\ cfg.diode_position # None => placed[k].diode = Some(Format(DIODE_FORMAT, k))
         /\ \A j \in DOMAIN placed :
              (placed[j].switch = placed[k].switch
               \/ (placed[j].diode # None /\ placed[j].diode = placed[k].diode)) => j = k

C9_Counted ==
    pc # "new" =>
        /\ current_key' \in {current_key, current_key + 1}
        /\ current_diode' \in {current_diode, current_diode + 1}
        /\ Len(placed') = Len(placed) + 1 =>
             /\ current_key' = current_key + 1
             /\ cfg.diode_position # None => current_diode' = current_diode + 1

\* C9: the k-th key cell is assigned the switch key_format.format(k) and,
\* when diodes are placed, the diode diode_format.format(k); both counters
\* start at 1, grow by exactly 1 per processed cell and never decrease, and
\* no footprint is assigned to two cells.
C9_Numbering == []C9_Assigned /\ [][C9_Counted]_vars

\* two cells were given their switches and diodes
C9_Witness ==
    /\ Len(placed) = 2
    /\ placed[2].diode # None
    /\ current_key = 3
    /\ current_diode = 3


-----------------------------------------------------------------------------
(* Claims about the failure, the order and the end of run                   *)

\* a footprint that run looks up for the k-th key cell is not on the board
MissingAt(k) ==
    \/ Format(KEY_FORMAT, k) \notin DOMAIN fps
    \/ (cfg.diode_position # None /\ Format(DIODE_FORMAT, k) \notin DOMAIN fps)

\* the footprints of the processed cell c are where run put them
AsPlaced(c) ==
    /\ fps[c.switch].pos = Turned(c.position, Pivot(c), c.key.rotation_angle)
    /\ fps[c.switch].orient = NormAngle(-c.key.rotation_angle)
    /\ c.diode # None =>
         /\ fps[c.diode[1]].pos
              = Turned(DiodeTarget(c), Pivot(c), c.key.rotation_angle)
         /\ fps[c.diode[1]].orient
              = NormAngle(cfg.diode_position[1].orientation - c.key.rotation_angle)
         /\ fps[c.diode[1]].flipped = cfg.diode_position[1].side

C11_Aborted ==
    /\ \A k \in DOMAIN cfg.layout :
         MissingAt(k) =>
            /\ Len(placed) < k
            /\ cell <= k
            /\ pc \notin {"columns", "rows", "cleanup", "done"}
            /\ last.op \notin {"columns", "rows", "cleanup"}
    /\ pc = "raised" =>
         /\ \A j \in DOMAIN placed : AsPlaced(placed[j])
         /\ \A j \in DOMAIN placed : cfg.route_tracks => placed[j].routed = (placed[j].diode # None)

C11_Raises ==
    /\ (pc = "loop" /\ MissingAt(cell)) => pc' = "raised"
    /\ pc = "raised" => UNCHANGED vars
    /\ pc' = "raised" =>
         /\ placed' = placed
         /\ tracks' = tracks
         /\ attempts' = attempts
         /\ \A j \in DOMAIN placed :
              /\ fps'[placed[j].switch] = fps[placed[j].switch]
              /\ placed[j].diode # None => fps'[placed[j].diode[1]] = fps[placed[j].diode[1]]

\* C11: if the switch (or, when diodes are placed, the diode) of the k-th
\* key cell is not on the board, run raises at that cell: the footprints of
\* the cells 1..k-1 keep the positions, rotations and sides run gave them,
\* no cell after k is processed, and neither the matrix routing nor the
\* cleanup of dangling tracks is performed.
C11_RaisesAtMissingFootprint == []C11_Aborted /\ [][C11_Raises]_vars

\* run raised at the second cell, after the first pair was placed and routed
C11_Witness ==
    /\ pc = "raised"
    /\ last.op = "place"
    /\ Len(placed) = 1
    /\ placed[1].routed
    /\ MissingAt(2)

\* run raised at the first of two cells
C11_WitnessFirst ==
    /\ pc = "raised"
    /\ last.op = "place"
    /\ placed = <<>>
    /\ Len(cfg.layout) = 2
    /\ MissingAt(1)

\* the consecutive pads of the pad groups: <<first pad, second pad>>
ConsecutivePads(groups) ==
    UNION { { <<groups[g].pads[i], groups[g].pads[i + 1]>> : i \in 1..(Len(groups[g].pads) - 1) } :
            g \in DOMAIN groups }

\* a segment from pad a to pad b was attempted on the given layer
AttemptedBetween(a, b, layers) ==
    \E i \in DOMAIN attempts :
        /\ attempts[i].track.start = PositionOf(fps, a)
        /\ attempts[i].track.end = PositionOf(fps, b)
        /\ attempts[i].track.layer \in layers

\* every footprint run looks up is on the board, and tracks are to be routed
C12_Start ==
    /\ pc = "constructed"
    /\ cfg.route_tracks
    /\ Format(DIODE_FORMAT, 1) \in DOMAIN fps
    /\ \A k \in DOMAIN cfg.layout : ~MissingAt(k)

C12_Completed ==
    (pc = "done" /\ cfg.route_tracks) =>
        /\ Len(placed) = Len(cfg.layout)
        /\ \A k \in DOMAIN placed : placed[k].routed = (placed[k].diode # None)
        /\ last.op = "cleanup"
        /\ \A ab \in ConsecutivePads(column_switch_pads) :
             PositionOf(fps, ab[1]).x = PositionOf(fps, ab[2]).x
                => AttemptedBetween(ab[1], ab[2], {F_Cu})
        /\ \A ab \in ConsecutivePads(row_diode_pads) :
             PositionOf(fps, ab[1]).y = PositionOf(fps, ab[2]).y
                => AttemptedBetween(ab[1], ab[2], Layers)

C12_NoRetry ==
    \A i \in DOMAIN attempts : \A j \in DOMAIN attempts :
        (i < j /\ attempts[i].result = None) => attempts[j].track # attempts[i].track

\* C12: provided every referenced switch and diode is on the board, run with
\* route_tracks = True always ends, having processed every key cell,
\* attempted the pairs of every column and row group and cleaned up the
\* dangling tracks, however many segments were rejected or pairs skipped;
\* a rejected segment is not attempted again.
C12_RunCompletes ==
    /\ C12_Start ~> (pc = "done")
    /\ []C12_Completed
    /\ []C12_NoRetry

\* a run over two cells ended although a segment of the matrix routing was
\* rejected and the cleanup removed a track
C12_Witness ==
    /\ pc = "done"
    /\ cfg.route_tracks
    /\ Len(placed) = 2
    /\ \E i \in DOMAIN attempts : attempts[i].result = None
    /\ Len(tracks) < Len(last.before)

\* the number of add_track_segment_by_points calls made for the pairs of
\* the first k processed cells
RECURSIVE PairAttempts(_)
PairAttempts(k) == IF k = 0 THEN 0 ELSE Len(placed[k].route) + PairAttempts(k - 1)

\* the calls made by the matrix routing
MatrixAttempts == { i \in DOMAIN attempts : i > PairAttempts(Len(placed)) }

ColumnSkipped(ab) ==
    /\ PositionOf(fps, ab[1]).x # PositionOf(fps, ab[2]).x
    /\ Abs(PositionOf(fps, ab[1]).y - PositionOf(fps, ab[2]).y)
         - Abs(PositionOf(fps, ab[1]).x - PositionOf(fps, ab[2]).x) <= 0

RowSkipped(ab) == PositionOf(fps, ab[1]).y # PositionOf(fps, ab[2]).y

\* no segment was attempted from the first pad of the pair or to its second
NothingFor(ab) ==
    \A i \in MatrixAttempts :
        /\ attempts[i].track.start # PositionOf(fps, ab[1])
        /\ attempts[i].track.end # PositionOf(fps, ab[2])

StartedFrom(ab) ==
    \E i \in MatrixAttempts : attempts[i].track.start = PositionOf(fps, ab[1])

\* C13: in the matrix routing no segment is attempted, and no track added,
\* for two consecutive column pads with different x and |dy| - |dx| <= 0
\* (|dy| = |dx| included) nor for two consecutive row pads with different y;
\* the routing goes on with the pairs that follow: every other pair is
\* attempted.
C13_UnroutablePairsSkipped ==
    (cfg # None /\ cfg.route_tracks) =>
        /\ pc \in {"rows", "cleanup", "done"} =>
             \A ab \in ConsecutivePads(column_switch_pads) :
                 IF ColumnSkipped(ab) THEN NothingFor(ab) ELSE StartedFrom(ab)
        /\ pc \in {"cleanup", "done"} =>
             \A ab \in ConsecutivePads(row_diode_pads) :
                 IF RowSkipped(ab) THEN NothingFor(ab) ELSE StartedFrom(ab)
        /\ ( /\ last.op = "columns"
             /\ \A ab \in ConsecutivePads(column_switch_pads) : ColumnSkipped(ab) )
           => tracks = last.before
        /\ ( /\ last.op = "rows"
             /\ \A ab \in ConsecutivePads(row_diode_pads) : RowSkipped(ab) )
           => tracks = last.before

\* the pair of a column was skipped, and the pair of a row was then routed
C13_Witness ==
    /\ pc = "cleanup"
    /\ \E ab \in ConsecutivePads(column_switch_pads) : ColumnSkipped(ab)
    /\ \E ab \in ConsecutivePads(row_diode_pads) :
         ~RowSkipped(ab) /\ AttemptedBetween(ab[1], ab[2], Layers)
    /\ Len(tracks) > Len(last.before)

\* the pair of a row was skipped
C13_WitnessRow ==
    /\ pc = "cleanup"
    /\ \E ab \in ConsecutivePads(row_diode_pads) : RowSkipped(ab)

\* a column pair that lies exactly diagonally was skipped
C13_WitnessDiagonal ==
    /\ pc = "rows"
    /\ \E ab \in ConsecutivePads(column_switch_pads) :
         /\ ColumnSkipped(ab)
         /\ Abs(PositionOf(fps, ab[1]).y - PositionOf(fps, ab[2]).y)
              = Abs(PositionOf(fps, ab[1]).x - PositionOf(fps, ab[2]).x)

\* two consecutive column pads that get the route of two segments
TwoSegmentColumn(ab) ==
    /\ PositionOf(fps, ab[1]).x # PositionOf(fps, ab[2]).x
    /\ Abs(PositionOf(fps, ab[1]).y - PositionOf(fps, ab[2]).y)
         > Abs(PositionOf(fps, ab[1]).x - PositionOf(fps, ab[2]).x)

AtFortyFive(t) == Abs(t.start.x - t.end.x) = Abs(t.start.y - t.end.y)

\* the call i is the vertical segment from pos1 of length |dy| - |dx|
VerticalFrom(i, pos1, pos2) ==
    /\ attempts[i].track.start = pos1
    /\ attempts[i].track.end.x = pos1.x
    /\ Abs(attempts[i].track.end.y - pos1.y)
         = Abs(pos1.y - pos2.y) - Abs(pos1.x - pos2.x)

\* the call i + 1 is the segment at 45 degrees that ends at pos2
BendTo(i, pos2) ==
    /\ i + 1 \in MatrixAttempts
    /\ attempts[i + 1].track.start = attempts[i].track.end
    /\ attempts[i + 1].track.end = pos2
    /\ AtFortyFive(attempts[i + 1].track)

\* C19: for every two consecutive column pads pos1, pos2 with different x
\* and |dy| > |dx|, whichever of the two has the larger y, the segments
\* attempted are a vertical segment from pos1 of length |dy| - |dx| and
\* (when that one was added) a segment at exactly 45 degrees that ends at
\* pos2; every track the matrix routing adds is horizontal, vertical or at
\* exactly 45 degrees.
C19_ColumnBendAt45 ==
    /\ pc = "rows" =>
         \A ab \in ConsecutivePads(column_switch_pads) :
             TwoSegmentColumn(ab) =>
                 \E i \in MatrixAttempts :
                     /\ VerticalFrom(i, PositionOf(fps, ab[1]), PositionOf(fps, ab[2]))
                     /\ attempts[i].result # None => BendTo(i, PositionOf(fps, ab[2]))
    /\ pc \in {"rows", "cleanup", "done"} =>
         \A i \in MatrixAttempts :
             attempts[i].result # None =>
                 \/ attempts[i].track.start.x = attempts[i].track.end.x
                 \/ attempts[i].track.start.y = attempts[i].track.end.y
                 \/ AtFortyFive(attempts[i].track)

\* the same for the pairs whose second pad lies below the first (larger y)
C19_ColumnBendDownwards ==
    /\ pc = "rows" =>
         \A ab \in ConsecutivePads(column_switch_pads) :
             (TwoSegmentColumn(ab) /\ PositionOf(fps, ab[1]).y < PositionOf(fps, ab[2]).y) =>
                 \E i \in MatrixAttempts :
                     /\ VerticalFrom(i, PositionOf(fps, ab[1]), PositionOf(fps, ab[2]))
                     /\ attempts[i].result # None => BendTo(i, PositionOf(fps, ab[2]))

\* the footprints run looks up for cell k
FootprintsOfCell(k) ==
    {Format(KEY_FORMAT, k), Format(DIODE_FORMAT, k), Format(STABILIZER_FORMAT, k)}

C17_Ordered ==
    /\ pc \in {"new", "constructed"} => (placed = <<>> /\ attempts = <<>>)
    /\ (cfg.route_tracks /\ cfg.diode_position # None) =>
          \A k \in DOMAIN placed : (k < Len(placed) \/ pc # "route") => placed[k].routed
    /\ pc \in {"columns", "rows", "cleanup"} =>
          /\ cfg.route_tracks
          /\ Len(placed) = Len(cfg.layout)
          /\ \A k \in DOMAIN placed : AsPlaced(placed[k])
    /\ pc = "rows" => last.op = "columns"
    /\ pc = "cleanup" => last.op = "rows"
    /\ (pc = "done" /\ cfg.route_tracks) => last.op = "cleanup"
    /\ ~cfg.route_tracks =>
          /\ pc \notin {"route", "columns", "rows", "cleanup"}
          /\ attempts = <<>>
          /\ template_tracks = <<>>
          /\ \A k \in DOMAIN placed : ~placed[k].routed

C17_Steps ==
    /\ template_tracks' # template_tracks => (pc = "constructed" /\ cfg.route_tracks)
    /\ pc = "constructed" => (fps' = fps /\ placed' = <<>>)
    /\ fps' # fps =>
          /\ pc = "loop"
          /\ tracks' = tracks
          /\ \A ref \in DOMAIN fps : fps'[ref] # fps[ref] => ref \in FootprintsOfCell(cell)
    /\ pc = "route" =>
          /\ cell = Len(placed)
          /\ AsPlaced(placed[cell])
          /\ fps' = fps
          /\ placed'[cell].routed
    /\ tracks' # tracks =>
          /\ cfg.route_tracks
          /\ pc \in {"constructed", "route", "columns", "rows", "cleanup"}
    /\ (pc = "constructed" /\ tracks' # tracks) => Len(tracks') < Len(tracks)
    /\ pc \in {"done", "raised", "name_error"} => UNCHANGED vars

\* C17: in run with route_tracks = True the template is detected (and its
\* tracks removed) before any footprint is moved; the pair of cell k is
\* routed only after the switch and diode of cell k were positioned and
\* turned, and before a footprint of cell k+1 is touched; the routing of
\* columns and rows starts only after every cell was placed; the cleanup is
\* the last change of the board.  With route_tracks = False there is no
\* template detection, routing or cleanup, and the tracks stay as they are.
C17_StepOrder == []C17_Ordered /\ [][C17_Steps]_vars

\* a run over two cells with a template taken from the first pair is over
C17_Witness ==
    /\ pc = "done"
    /\ cfg.route_tracks
    /\ template_tracks # <<>>
    /\ Len(placed) = 2
    /\ \A k \in DOMAIN placed : placed[k].routed

\* a run without routing is over, on a board that holds tracks
C17_WitnessNoRouting ==
    /\ pc = "done"
    /\ ~cfg.route_tracks
    /\ tracks # <<>>
    /\ Len(placed) = 2

-----------------------------------------------------------------------------
(* Claims about the pad groups and the nets the routing joins.              *)

\* the pads 1 of the switches, and of the diodes, of the cells processed so
\* far, in layout order
SwitchPads1 == [k \in DOMAIN placed |-> <<placed[k].switch, "1">>]
DiodePads1 ==
    IF cfg.diode_position # None
    THEN [k \in DOMAIN placed |-> <<placed[k].diode[1], "1">>] ELSE <<>>

\* pad.GetNetname() of the pad <<reference, name>>
NetNameOf(pad) == NetName(fps[pad[1]].nets[pad[2]])

\* the groups hold the pads of `pads` whose net is named <prefix><N>, under
\* the key N and in the order of `pads`, and no other pad
GroupedByName(groups, pads, prefix) ==
    /\ \A g \in DOMAIN groups : \A h \in DOMAIN groups :
          groups[g].key = groups[h].key => g = h
    /\ \A g \in DOMAIN groups :
          /\ groups[g].pads # <<>>
          /\ groups[g].pads
               = SelectSeq(pads, LAMBDA pad : NetNameOf(pad) = <<prefix, groups[g].key>>)
    /\ \A i \in DOMAIN pads :
          IF NetNameOf(pads[i])[1] = prefix
          THEN \E g \in DOMAIN groups : groups[g].key = NetNameOf(pads[i])[2]
          ELSE \A g \in DOMAIN groups : \A j \in DOMAIN groups[g].pads :
                   groups[g].pads[j] # pads[i]

\* a pad 1 of a processed cell is on a net named neither COL<N> nor ROW<N>
UnrecognizedSeen ==
    \/ \E i \in DOMAIN SwitchPads1 : NetNameOf(SwitchPads1[i])[1] # "COL"
    \/ \E i \in DOMAIN DiodePads1 : NetNameOf(DiodePads1[i])[1] # "ROW"

\* the call i of the matrix routing belongs to the route from the first pad
\* of the pair ab to its second: the whole route, its first leg, or its
\* second leg
LegOf(i, ab) ==
    \/ /\ attempts[i].track.start = PositionOf(fps, ab[1])
       /\ \/ attempts[i].track.end = PositionOf(fps, ab[2])
          \/ attempts[i].result = None
          \/ /\ i + 1 \in MatrixAttempts
             /\ attempts[i + 1].track.start = attempts[i].track.end
             /\ attempts[i + 1].track.end = PositionOf(fps, ab[2])
    \/ /\ attempts[i].track.end = PositionOf(fps, ab[2])
       /\ i - 1 \in MatrixAttempts
       /\ attempts[i - 1].track.start = PositionOf(fps, ab[1])
       /\ attempts[i - 1].track.end = attempts[i].track.start

\* C21: after the placement loop of run (and after every cell of it) column
\* group N holds exactly the pads 1 of the switches whose net is named
\* COL<N>, and row group N exactly the pads 1 of the placed diodes whose net
\* is named ROW<N>, each in layout order; a pad whose net name matches
\* neither pattern is in no group and does not stop the run; the matrix
\* routing attempts segments only between consecutive pads of one group.
C21_PadGroups ==
    /\ GroupedByName(column_switch_pads, SwitchPads1, "COL")
    /\ GroupedByName(row_diode_pads, DiodePads1, "ROW")
    /\ pc = "raised" =>
         \/ \E k \in DOMAIN cfg.layout : MissingAt(k)
         \/ Format(DIODE_FORMAT, 1) \notin DOMAIN fps
    /\ pc \in {"columns", "rows", "cleanup", "done"} => Len(placed) = Len(cfg.layout)
    /\ pc = "rows" =>
         \A i \in MatrixAttempts :
             \E ab \in ConsecutivePads(column_switch_pads) : LegOf(i, ab)
    /\ pc \in {"cleanup", "done"} =>
         \A i \in MatrixAttempts :
             \E ab \in ConsecutivePads(column_switch_pads) \cup ConsecutivePads(row_diode_pads) :
                 LegOf(i, ab)

\* a run over two cells is over; the pad 1 of the first switch was on a net
\* with another name and is in no group, the row of the two diodes was routed
C21_Witness ==
    /\ pc = "done"
    /\ cfg.route_tracks
    /\ Len(placed) = 2
    /\ NetNameOf(SwitchPads1[1])[1] # "COL"
    /\ Len(column_switch_pads) = 1
    /\ Len(column_switch_pads[1].pads) = 1
    /\ \E ab \in ConsecutivePads(row_diode_pads) : AttemptedBetween(ab[1], ab[2], Layers)

\* the same with the pad 1 of the first diode, and a column that was routed
C21_WitnessDiode ==
    /\ pc = "done"
    /\ cfg.route_tracks
    /\ Len(placed) = 2
    /\ DiodePads1 # <<>>
    /\ NetNameOf(DiodePads1[1])[1] # "ROW"
    /\ Len(row_diode_pads) = 1
    /\ MatrixAttempts # {}

\* two groups of one pad each: the switches are in different columns
C21_WitnessTwoGroups ==
    /\ pc = "done"
    /\ Len(column_switch_pads) = 2

\* the track t leads from a pad of one net to a pad of another net, both on
\* its layer and neither on the default net
JoinsTwoNets(t, P) ==
    \E p \in P : \E q \in P :
        /\ p.net # 0
        /\ q.net # 0
        /\ p.net # q.net
        /\ t.layer \in p.layers
        /\ t.layer \in q.layers
        /\ HitTest(p, t.start)
        /\ HitTest(q, t.end)

\* C22: no track added to the board through add_track_segment_by_points has
\* its start on a pad of one non-default net and its end on a pad of another
\* non-default net on the same layer: the router never joins two nets,
\* whatever the sequence of routing calls.
C22_NeverJoinsTwoNets ==
    \A i \in DOMAIN attempts :
        attempts[i].result # None => ~JoinsTwoNets(attempts[i].track, Pads(fps))

=============================================================================
